---- MODULE Spec2Model ----
(***************************************************************************)
(* Clip review state machine of the trail-camera review tool:              *)
(*   gui/video_player.py    VideoPlayer (the playback engine and its       *)
(*                          decoder thread)                                *)
(*   gui/review_tab.py      ReviewTab (catalog, navigation, deletion,      *)
(*                          auto-advance)                                  *)
(*   gui/session_manager.py SessionManager (the persisted session record)  *)
(*   gui/main_window.py     TrailCamApp (startup, auto-resume, shutdown)   *)
(*                                                                         *)
(* Two specifications share the definitions of the engine:                 *)
(*   SpecEngine  one VideoPlayer driven through its public methods by an   *)
(*               arbitrary caller, its callbacks counted;                  *)
(*   Spec        the application: UI thread handlers, decoder threads,     *)
(*               the Tk "after" queue and timers, the session file.        *)
(***************************************************************************)
EXTENDS Integers, Sequences, FiniteSets, TLC

(* ------------------------------ bounds -------------------------------- *)

\* Engine objects that can be alive (referenced by the tab, by a live decoder
\* thread or by a queued UI callback) at the same time.
MaxEngines == 2

\* Decoder threads that can exist at the same time.
MaxThreads == 2

\* Frames in a video file (one read at the default play rate of 4.0).
NumFrames == 4

\* Callbacks scheduled with after(0, ...) and not yet run by the UI thread.
MaxQueue == 1

\* Pending after(ms, _advance_after_pause) timers.
MaxTimers == 1

\* Rows of the aggregated-predictions file (titles 1..NumClips, in file order).
NumClips == 2

\* Frames a decoder thread counts in current_frame before the model stops
\* following it (a thread that outlives a load_video goes on counting).
MaxCurrentFrame == 5

\* Clips of the catalogs the search is run on.
NumSearchClips == 3

\* Completion callbacks the engine harness counts per load_video.
MaxCompletions == 2

\* Sessions the video backend can hold at the same time.
MaxSessions == 2

\* Calls made on VideoCapture clients in one run of the capture harness.
MaxCalls == 5

(* ----------------------------- constants ------------------------------ *)

\* video_player.py:139  max(0.1, multiplier), speeds in tenths
MinSpeedTenths == 1

\* video_player.py:31  self.speed_multiplier = 1.0, in tenths
PlayerSpeedTenths == 10

\* config.py:54  DEFAULT_CONFIG['play_rate'] = 4.0, in tenths
DefaultSpeedTenths == 40

\* config.py:55  DEFAULT_CONFIG['clip_pause_seconds'] = 2.0, in tenths
DefaultPauseTenths == 20

\* Directories: DefaultDir is DEFAULT_CONFIG['clips_dir'], OtherDir a directory
\* the user chose; NoDir is clips_directory = None.
NoDir == 0
DefaultDir == 1
OtherDir == 2
Dirs == {DefaultDir, OtherDir}

\* Contents of session.json.  kind is "absent" (no file), "garbage" (not JSON),
\* "partial" (a record cut short by a failed write), "nonobject" (valid JSON
\* that is not an object), "record" (an object with the fields save_state
\* writes; version is its 'version' field, "1.0" or an older "0.9").
FileOf(kind, version, dir, index, play_rate, pause) ==
    [kind |-> kind, version |-> version, dir |-> dir, index |-> index,
     play_rate |-> play_rate, pause |-> pause]
NoFile == FileOf("absent", "", NoDir, 0, 0, 0)
GarbageFile == FileOf("garbage", "", NoDir, 0, 0, 0)
PartialFile == FileOf("partial", "", NoDir, 0, 0, 0)
NonObjectFile == FileOf("nonobject", "", NoDir, 0, 0, 0)

EngineIds == 1..MaxEngines
ThreadIds == 1..MaxThreads
Titles == 1..NumClips

\* "no player" / "no index": self.player = None, self.current_index = None
NoPlayer == 0
NoneIndex == -1

Min(a, b) == IF a <= b THEN a ELSE b
Max(a, b) == IF a >= b THEN a ELSE b

\* The runner part of the state while run_pipeline is not run.
NoRunner ==
    [pc |-> "off", force |-> FALSE, frames_dir |-> {}, animal_csv |-> FALSE,
     summary_csv |-> FALSE, ran |-> << >>, exit_code |-> 0]

\* ReviewTab.__init__: no overlay open, was_playing_before_settings and
\* was_playing_before_menu False.  paused_before is a history field: the tab
\* had a paused player when the overlay was opened.
NoOverlay ==
    [open |-> "none", was_playing_before_settings |-> FALSE,
     was_playing_before_menu |-> FALSE, paused_before |-> FALSE]

\* The capture part of the state while no VideoCapture client is exercised.
NoCapture ==
    [client |-> [session_id |-> 0, opened |-> FALSE],
     sessions |-> [i \in 1..MaxSessions |-> [live |-> FALSE, pos |-> 0]],
     op |-> "none", result |-> "none", requests |-> 0, released |-> FALSE,
     calls |-> 0]

\* The pipeline part of the state while no pipeline is run.
NoPipeline ==
    [stage |-> "off", per_video |-> << >>, listing |-> {}, rows |-> << >>,
     clips |-> << >>]

VARIABLES
    engines,        \* EngineIds -> VideoPlayer object fields
    threads,        \* ThreadIds -> decoder thread (engine, position in _playback_loop)
    completions,    \* engine harness: completion_callback calls since load_video
    loads,          \* engine harness: load_video has been called on the engine
    phase,          \* "off" | "startup" | "review": process / screen
    clips,          \* ReviewTab.clips: sequence of titles
    current_index,  \* ReviewTab.current_index
    player,         \* ReviewTab.player: engine id or NoPlayer
    queue,          \* after(0, safe_update) callbacks not yet run
    advance_timers, \* pending after(ms, _advance_after_pause) timers
    progress_var,   \* ReviewTab.progress_var, percent
    auto_play,      \* ReviewTab.auto_play_enabled_var
    speed_var,      \* ReviewTab.speed_var, tenths
    pause_var,      \* ReviewTab.pause_duration_var, tenths of a second
    skip_confirm,   \* ReviewTab.skip_delete_confirmation
    dialog,         \* title shown by the open delete-confirmation dialog, 0 if closed
    search_var,     \* ReviewTab.search_var: the text of the search box
    packed,         \* the clip widgets the list shows, in packing (display) order
    sm_index,       \* SessionManager.current_clip_index
    sm_dir,         \* SessionManager.clips_directory (csv_path is derived from it)
    disk,           \* content of session.json
    fs,             \* file system: directory, csv and its rows, media files
    pipeline,       \* summarize_videos and _load_clips on their own: the frame
                    \* predictions, the directory listing, the csv rows, the records
    capture,        \* video_client.VideoCapture on its own: the client object,
                    \* the sessions of the backend, the last call and its result
    overlay,        \* the settings panel / advanced menu: which one is open,
                    \* was_playing_before_settings, was_playing_before_menu
    runner          \* run_pipeline.main on its own: its position, --force, the
                    \* files it tests for, the steps it has run, its exit code

vars == <<engines, threads, completions, loads, phase, clips, current_index, player,
          queue, advance_timers, progress_var, auto_play, speed_var,
          pause_var, skip_confirm, dialog, search_var, packed, sm_index, sm_dir,
          disk, fs, pipeline, capture, overlay, runner>>

engineVars == <<engines, threads, completions, loads>>
appVars == <<phase, clips, current_index, player, queue, advance_timers,
             progress_var, auto_play, speed_var, pause_var, skip_confirm, dialog,
             search_var, packed,
             sm_index, sm_dir, disk, fs, pipeline, capture, overlay, runner>>

(* ======================= VideoPlayer (the engine) ====================== *)

\* VideoPlayer.__init__: cap None, no thread, not running, not paused, speed 1.0.
\* cap is "none" (None), "open" (an opened capture) or "unopened" (a capture
\* object whose open failed); pos counts the frames consumed from the capture.
NewPlayer ==
    [cap |-> "none", pos |-> 0, running |-> FALSE, paused |-> FALSE,
     speed |-> PlayerSpeedTenths, total_frames |-> 0]

\* A thread slot with no thread in it.
NoThread == [eng |-> 0, pc |-> "dead", current_frame |-> 0]

ThreadAlive(t) == t.pc # "dead"

\* A stop that clears running and leaves the capture.
StopPlayer_KeepsCap(p) == [p EXCEPT !.running = FALSE]

\* VideoPlayer.stop: clear running, join with a 50 ms timeout, release the
\* capture.  The join changes no field: a thread that does not finish within
\* the timeout stays where it is, and one that finishes within it is a thread
\* that took its steps before stop.
StopPlayer(p) == [p EXCEPT !.running = FALSE, !.cap = "none"]

\* VideoPlayer.load_video(path): stops a running engine, opens the capture
\* (self.cap is assigned before the isOpened test, so a failed open leaves an
\* unopened capture behind and raises), reads the frame count, clears paused.
LoadVideo(p, opens) ==
    LET q == IF p.running THEN StopPlayer(p) ELSE p IN
    IF opens
    THEN [q EXCEPT !.cap = "open", !.pos = 0, !.total_frames = NumFrames,
                   !.paused = FALSE]
    ELSE [q EXCEPT !.cap = "unopened", !.pos = 0]

\* VideoPlayer.start raises ValueError("No video loaded") in this case.
StartRaises(p) == p.cap # "open"

\* VideoPlayer.start creates a thread unless it raises or the engine is running.
StartSpawns(p) == ~StartRaises(p) /\ ~p.running

StartPlayer(p) == IF StartSpawns(p) THEN [p EXCEPT !.running = TRUE] ELSE p

\* VideoPlayer.toggle_pause
TogglePause(p) == [p EXCEPT !.paused = ~p.paused]

SetSpeed_NoFloor(p, m) == [p EXCEPT !.speed = m]

\* VideoPlayer.set_speed: max(0.1, multiplier)
SetSpeed(p, m) == [p EXCEPT !.speed = Max(MinSpeedTenths, m)]

\* Python's round() on a speed given in tenths: round half to even.
RoundTenths(m) ==
    LET q == m \div 10
        r == m % 10
    IN  IF r < 5 THEN q
        ELSE IF r > 5 THEN q + 1
        ELSE IF q % 2 = 0 THEN q ELSE q + 1

FrameStep_Truncated(p) == Max(1, p.speed \div 10)

\* _playback_loop: frame_step = max(1, int(round(self.speed_multiplier)))
FrameStep(p) == Max(1, RoundTenths(p.speed))

\* _playback_loop: progress = min(1.0, current_frame / total_frames), in percent
Progress(current_frame, total) == Min(100, (current_frame * 100) \div total)

\* The callbacks of the end-of-stream branch: progress 1.0, then completion.
EndOfStreamCalls ==
    << [cb |-> "progress", val |-> 100], [cb |-> "complete", val |-> 0] >>

\* _playback_loop, "while self.running" and the pause test: a thread at the top
\* of the loop exits when running is false, sleeps when paused, and otherwise
\* goes on to read.
ThreadCheck(p, t) ==
    IF ~p.running THEN [t EXCEPT !.pc = "dead"]
    ELSE IF p.paused THEN t
    ELSE [t EXCEPT !.pc = "read"]

\* _playback_loop, cap.read() and the frame_step - 1 cap.grab() calls.  Every
\* outcome is a record [p, t, calls]: the engine, the thread and the callbacks
\* the thread invokes.
\*  - capture open with frames left for the read and all the grabs: the frames
\*    are consumed and the thread goes on to deliver the frame;
\*  - capture open but exhausted by the read or by a grab, or an unopened
\*    capture: running is cleared, progress 1.0 and the completion callback are
\*    invoked, the thread ends;
\*  - self.cap is None (stop() released it while the thread was past the
\*    running test): the attribute access raises and the thread dies, or the
\*    thread had taken its reference before the release and the read on the
\*    released capture fails like an end of stream.
ThreadReadOutcomes(p, t) ==
    LET step == FrameStep(p)
        left == p.total_frames - p.pos
        ended == [p |-> [p EXCEPT !.running = FALSE,
                                  !.pos = IF p.cap = "open"
                                          THEN Min(p.total_frames, p.pos + step)
                                          ELSE p.pos],
                  t |-> [t EXCEPT !.pc = "dead"],
                  calls |-> EndOfStreamCalls]
        died == [p |-> p, t |-> [t EXCEPT !.pc = "dead"], calls |-> << >>]
    IN  IF p.cap = "none" THEN {died, ended}
        ELSE IF p.cap = "open" /\ left >= step
        THEN {[p |-> [p EXCEPT !.pos = p.pos + step],
               t |-> [t EXCEPT !.pc = "progress",
                               !.current_frame = t.current_frame + step],
               calls |-> << >>]}
        ELSE {ended}

\* _playback_loop after the read: the progress callback (when total_frames >
\* 0), then the frame is converted and resized.
ThreadProgressCalls(p, t) ==
    IF p.total_frames > 0
    THEN << [cb |-> "progress", val |-> Progress(t.current_frame, p.total_frames)] >>
    ELSE << >>

ThreadProgress(t) == [t EXCEPT !.pc = "frame"]

\* _playback_loop, the end of a tick: the frame callback, the sleep, and back
\* to the top of the loop.
ThreadFrameCalls == << [cb |-> "frame", val |-> 0] >>

ThreadFrame(t) == [t EXCEPT !.pc = "top"]

\* A free thread slot for threading.Thread(...).
FreeThreads(ths) == {i \in ThreadIds : ~ThreadAlive(ths[i])}
FreshThread(e) == [eng |-> e, pc |-> "top", current_frame |-> 0]

(* ================= SpecEngine: one engine and its caller ================ *)

\* Speeds a caller passes to set_speed, in tenths (-1.0, 0, 1.5, 4.0).
SpeedInputs == {-10, 0, 15, 40}

\* The application part of the state while no application is running.
AppOff ==
    /\ phase = "off"
    /\ clips = << >>
    /\ current_index = NoneIndex
    /\ player = NoPlayer
    /\ queue = << >>
    /\ advance_timers = 0
    /\ progress_var = 0
    /\ auto_play = TRUE
    /\ speed_var = DefaultSpeedTenths
    /\ pause_var = DefaultPauseTenths
    /\ skip_confirm = FALSE
    /\ search_var = << >>
    /\ packed = << >>
    /\ dialog = 0
    /\ sm_index = 0
    /\ sm_dir = NoDir

\* The engine under test is engine 1.
EngineInit ==
    /\ engines = [e \in EngineIds |-> NewPlayer]
    /\ threads = [i \in ThreadIds |-> NoThread]
    /\ completions = 0
    /\ loads = FALSE
    /\ AppOff
    /\ pipeline = NoPipeline
    /\ capture = NoCapture
    /\ overlay = NoOverlay
    /\ runner = NoRunner
    /\ disk = NoFile
    /\ fs = [exists |-> {}, csv |-> {}, files |-> {}, rows |-> << >>]

\* load_video(path), the open succeeding or failing; the harness counts the
\* completion callbacks of each load.
E_Load ==
    \E opens \in BOOLEAN :
        /\ engines' = [engines EXCEPT ![1] = LoadVideo(engines[1], opens)]
        /\ completions' = 0
        /\ loads' = TRUE
        /\ UNCHANGED <<threads>>
        /\ UNCHANGED appVars

\* start(): raises, returns at once, or sets running and starts a thread.
E_Start ==
    /\ StartSpawns(engines[1]) => FreeThreads(threads) # {}
    /\ engines' = [engines EXCEPT ![1] = StartPlayer(engines[1])]
    /\ threads' = IF StartSpawns(engines[1])
                  THEN [threads EXCEPT ![CHOOSE i \in FreeThreads(threads) : TRUE] =
                                            FreshThread(1)]
                  ELSE threads
    /\ UNCHANGED <<completions, loads>>
    /\ UNCHANGED appVars

E_Stop ==
    /\ engines' = [engines EXCEPT ![1] = StopPlayer(engines[1])]
    /\ UNCHANGED <<threads, completions, loads>>
    /\ UNCHANGED appVars

E_TogglePause ==
    /\ engines' = [engines EXCEPT ![1] = TogglePause(engines[1])]
    /\ UNCHANGED <<threads, completions, loads>>
    /\ UNCHANGED appVars

E_SetSpeed ==
    \E m \in SpeedInputs :
        /\ engines' = [engines EXCEPT ![1] = SetSpeed(engines[1], m)]
        /\ UNCHANGED <<threads, completions, loads>>
        /\ UNCHANGED appVars

\* The number of "complete" callbacks in a sequence of callbacks.
CountComplete(calls) == Cardinality({i \in DOMAIN calls : calls[i].cb = "complete"})

E_ThreadCheck ==
    \E i \in ThreadIds :
        /\ threads[i].pc = "top"
        /\ threads' = [threads EXCEPT ![i] = ThreadCheck(engines[1], threads[i])]
        /\ UNCHANGED <<engines, completions, loads>>
        /\ UNCHANGED appVars

E_ThreadRead ==
    \E i \in ThreadIds :
        /\ threads[i].pc = "read"
        /\ \E o \in ThreadReadOutcomes(engines[1], threads[i]) :
               /\ completions + CountComplete(o.calls) <= MaxCompletions
               /\ o.t.current_frame <= MaxCurrentFrame
               /\ engines' = [engines EXCEPT ![1] = o.p]
               /\ threads' = [threads EXCEPT ![i] = o.t]
               /\ completions' = completions + CountComplete(o.calls)
        /\ UNCHANGED loads
        /\ UNCHANGED appVars

E_ThreadProgress ==
    \E i \in ThreadIds :
        /\ threads[i].pc = "progress"
        /\ threads' = [threads EXCEPT ![i] = ThreadProgress(threads[i])]
        /\ UNCHANGED <<engines, completions, loads>>
        /\ UNCHANGED appVars

E_ThreadFrame ==
    \E i \in ThreadIds :
        /\ threads[i].pc = "frame"
        /\ threads' = [threads EXCEPT ![i] = ThreadFrame(threads[i])]
        /\ UNCHANGED <<engines, completions, loads>>
        /\ UNCHANGED appVars

EngineNext ==
    \/ E_Load
    \/ E_Start
    \/ E_Stop
    \/ E_TogglePause
    \/ E_SetSpeed
    \/ E_ThreadCheck
    \/ E_ThreadRead
    \/ E_ThreadProgress
    \/ E_ThreadFrame

SpecEngine == EngineInit /\ [][EngineNext]_vars

\* C3: for every load_video call the completion callback is invoked at most
\* once, whatever start, toggle_pause, set_speed and stop calls follow the load.
\* (Violated: after the stream is exhausted the capture stays open and running
\* is false, so a second start() runs the loop again and completes again.)
C3_CompletionAtMostOncePerLoad == loads => completions <= 1

(* ============== The application state seen by the handlers ============= *)

\* The handlers of the UI thread run to completion one after the other and call
\* each other (_delete_clip calls _play_clip, which calls save_state, ...), so
\* each is written as a function from the application state before it to the
\* state after it.  blocked is not program state: a handler sets it when it
\* needs an engine or thread slot and the model has none left, or when it is
\* given an outcome the environment cannot produce.  raised says that an
\* exception is propagating out of the handler: what follows the raising call
\* is skipped up to the except clause that catches it, or up to the event loop.
Cur ==
    [engines |-> engines, threads |-> threads, phase |-> phase, clips |-> clips,
     current_index |-> current_index, player |-> player, queue |-> queue,
     advance_timers |-> advance_timers,
     progress_var |-> progress_var, auto_play |-> auto_play,
     speed_var |-> speed_var, pause_var |-> pause_var,
     skip_confirm |-> skip_confirm, dialog |-> dialog,
     search_var |-> search_var, packed |-> packed, sm_index |-> sm_index,
     sm_dir |-> sm_dir, disk |-> disk, fs |-> fs, blocked |-> FALSE,
     raised |-> FALSE]

\* Engine ids are names the model gives to VideoPlayer objects.  After each
\* handler the objects are renamed so that the tab's player is engine 1, and
\* what the program can no longer read is dropped: an engine that is not the
\* tab's player and has no live thread, the record of a thread that has ended,
\* and, of a replaced engine (always stopped) whose thread still lives, the
\* fields that only a running engine's thread reads.
Rename(s, e) ==
    IF s.player = NoPlayer \/ e = 0 THEN e
    ELSE IF e = 1 THEN s.player
    ELSE IF e = s.player THEN 1
    ELSE e

Collect(s) ==
    LET live(e) == \E i \in ThreadIds :
                       ThreadAlive(s.threads[i]) /\ s.threads[i].eng = e
        engine(e) == IF e = s.player THEN s.engines[e]
                     ELSE IF live(e)
                     THEN [s.engines[e] EXCEPT !.paused = FALSE, !.pos = 0,
                                               !.speed = PlayerSpeedTenths]
                     ELSE NewPlayer
        thread(i) == IF ThreadAlive(s.threads[i])
                     THEN [s.threads[i] EXCEPT !.eng = Rename(s, @)]
                     ELSE NoThread
    IN  [s EXCEPT
           !.engines = [e \in EngineIds |-> engine(Rename(s, e))],
           !.threads = [i \in ThreadIds |-> thread(Rename(s, i))],
           !.queue = [k \in DOMAIN s.queue |->
                         [s.queue[k] EXCEPT !.src = Rename(s, @)]],
           !.player = IF s.player = NoPlayer THEN NoPlayer ELSE 1]

\* The state after a handler: the bounds of the model hold in it.
Within(s) ==
    /\ ~s.blocked
    /\ Len(s.queue) <= MaxQueue
    /\ s.advance_timers <= MaxTimers

SetTab(s0) ==
    \E s \in {Collect(s0)} :
    /\ Within(s)
    /\ engines' = s.engines
    /\ threads' = s.threads
    /\ phase' = s.phase
    /\ clips' = s.clips
    /\ current_index' = s.current_index
    /\ player' = s.player
    /\ queue' = s.queue
    /\ advance_timers' = s.advance_timers
    /\ progress_var' = s.progress_var
    /\ auto_play' = s.auto_play
    /\ speed_var' = s.speed_var
    /\ pause_var' = s.pause_var
    /\ skip_confirm' = s.skip_confirm
    /\ search_var' = s.search_var
    /\ packed' = s.packed
    /\ dialog' = s.dialog
    /\ sm_index' = s.sm_index
    /\ sm_dir' = s.sm_dir
    /\ disk' = s.disk
    /\ fs' = s.fs
    /\ UNCHANGED <<completions, loads, pipeline, capture, runner>>

\* A handler that opens or closes no overlay.
Set(s0) == SetTab(s0) /\ UNCHANGED overlay

(* ============================ SessionManager =========================== *)

\* Outcomes of a call that goes to session.json: it succeeds; the write fails
\* with an OSError after open() has truncated the file; or the mkdir of the
\* config directory in _get_config_path fails.
SaveOutcomes == {"ok", "write_fail", "mkdir_fail"}

\* _get_config_path: mkdir(parents=True, exist_ok=True) can fail only while
\* the config directory does not exist, and then there is no session.json.
MkdirCanFail(file) == file.kind = "absent"

\* The record save_state builds: version '1.0', the session's directory and
\* index, and the preferences _get_preferences returns (play_rate,
\* clip_pause_seconds).
RecordOf(s) == FileOf("record", "1.0", s.sm_dir, s.sm_index, s.speed_var, s.pause_var)

\* SessionManager.save_state: _get_config_path (its mkdir is outside the try,
\* so its OSError leaves save_state), then open(config_path, 'w') and json.dump
\* into it, OSError swallowed.
SaveState(s, io) ==
    IF io = "ok" THEN [s EXCEPT !.disk = RecordOf(s)]
    ELSE IF io = "write_fail" THEN [s EXCEPT !.disk = PartialFile]
    ELSE IF MkdirCanFail(s.disk) THEN [s EXCEPT !.raised = TRUE]
    ELSE [s EXCEPT !.blocked = TRUE]

\* SessionManager.load_state raises: state.get on a JSON value that is not an
\* object is an AttributeError, which the except clause does not catch.
LoadRaises(file) == file.kind = "nonobject"

\* load_state calls _get_config_path before its try: a failing mkdir raises too.
LoadMkdirRaises(file, io) == io = "mkdir_fail" /\ MkdirCanFail(file)

\* SessionManager.load_state returns a state (and not None): the file exists,
\* parses, and its version is '1.0'.
LoadReturnsState(file) == file.kind = "record" /\ file.version = "1.0"

\* A validate_state that does not look for the csv.
ValidateState_NoCsv(file, f) ==
    /\ file.dir # NoDir
    /\ file.dir \in f.exists

\* SessionManager.validate_state: the recorded directory and csv exist.
ValidateState(file, f) ==
    /\ file.dir # NoDir
    /\ file.dir \in f.exists
    /\ file.dir \in f.csv

\* SessionManager.restore_from_state: directory (when recorded) and index.
RestoreFromState(s, file) ==
    [s EXCEPT !.sm_dir = IF file.dir # NoDir THEN file.dir ELSE @,
              !.sm_index = file.index]

\* SessionManager.has_existing_outputs
HasExistingOutputs(s) == s.sm_dir # NoDir /\ s.sm_dir \in s.fs.csv

(* =============================== ReviewTab ============================= *)

\* Rows of animals_in_videos.csv, in file order.
Rows == [i \in 1..NumClips |-> i]

\* ReviewTab._find_clip: a media file exists for the title.
FindClip(title, f) == title \in f.files

\* Engine slots nothing refers to: no live thread, no queued callback.  The
\* thread of the tab's engine e is thread e.
FreeEngines(s) ==
    {e \in EngineIds \cap ThreadIds :
        /\ ~ThreadAlive(s.threads[e])
        /\ \A i \in ThreadIds : ThreadAlive(s.threads[i]) => s.threads[i].eng # e
        /\ \A k \in DOMAIN s.queue : s.queue[k].src # e}

\* self.player.stop() when there is a player.
StopCurrent(s) ==
    IF s.player = NoPlayer THEN s
    ELSE [s EXCEPT !.engines[s.player] = StopPlayer(@)]

\* A _play_clip that does not hand the index to the session manager.
PlayClip_NoIndexSave(s, index, io) ==
    IF index < 0 \/ index >= Len(s.clips) THEN s
    ELSE IF FreeEngines(s) = {}
    THEN [s EXCEPT !.blocked = TRUE]
    ELSE
    LET s1 == StopCurrent(s)
        s2 == SaveState([s1 EXCEPT !.current_index = index], io)
        opens == FindClip(s.clips[index + 1], s.fs)
        e == CHOOSE x \in FreeEngines(s) : TRUE
        loaded == LoadVideo(NewPlayer, opens)
    IN  IF s2.raised \/ s2.blocked THEN s2 ELSE
        [s2 EXCEPT
           !.progress_var = 0,
           !.player = e,
           !.engines[e] = IF opens THEN StartPlayer(SetSpeed(loaded, s.speed_var))
                          ELSE loaded,
           !.threads[e] = IF opens THEN FreshThread(e) ELSE @]

\* ReviewTab._play_clip(index): bounds check, stop the current player, set the
\* index, write it through the session manager, reset the progress bar, create
\* a new VideoPlayer, load the clip, set the speed and start.  A failed open
\* raises out of load_video and is caught: the new player stays, not started.
\* An exception out of save_state is not caught: the old player is stopped,
\* the index is set, and nothing else is done.
PlayClip(s, index, io) ==
    IF index < 0 \/ index >= Len(s.clips) THEN s
    ELSE IF FreeEngines(s) = {}
    THEN [s EXCEPT !.blocked = TRUE]
    ELSE
    LET s1 == StopCurrent(s)
        s2 == SaveState([s1 EXCEPT !.current_index = index, !.sm_index = index], io)
        opens == FindClip(s.clips[index + 1], s.fs)
        e == CHOOSE x \in FreeEngines(s) : TRUE
        loaded == LoadVideo(NewPlayer, opens)
    IN  IF s2.raised \/ s2.blocked THEN s2 ELSE
        [s2 EXCEPT
           !.progress_var = 0,
           !.player = e,
           !.engines[e] = IF opens THEN StartPlayer(SetSpeed(loaded, s.speed_var))
                          ELSE loaded,
           !.threads[e] = IF opens THEN FreshThread(e) ELSE @]

\* A _load_clips that clears the catalog before it looks at the directory.
LoadClips_ClearsFirst(s, io) ==
    LET dir == IF s.sm_dir # NoDir THEN s.sm_dir ELSE DefaultDir
        s0 == [s EXCEPT !.clips = << >>, !.packed = << >>]
    IN
    IF dir \notin s.fs.exists \/ dir \notin s.fs.csv THEN s0
    ELSE LET found == SelectSeq(s.fs.rows, LAMBDA t : FindClip(t, s.fs))
             s1 == [s EXCEPT !.clips = found, !.packed = found]
         IN  IF found = << >> THEN s1 ELSE PlayClip(s1, 0, io)

\* ReviewTab._load_clips: directory and csv must exist; the catalog is the rows
\* of the csv (fs.rows) whose media file is found, in file order; a widget is created and packed
\* for each clip, in that order; the first clip is played.
LoadClips(s, io) ==
    LET dir == IF s.sm_dir # NoDir THEN s.sm_dir ELSE DefaultDir IN
    IF dir \notin s.fs.exists \/ dir \notin s.fs.csv THEN s
    ELSE LET found == SelectSeq(s.fs.rows, LAMBDA t : FindClip(t, s.fs))
             s1 == [s EXCEPT !.clips = found, !.packed = found]
         IN  IF found = << >> THEN s1 ELSE PlayClip(s1, 0, io)

\* A _next_clip that goes round to the first clip at the end of the list.
NextClip_Wrap(s, io) ==
    IF s.current_index = NoneIndex \/ s.clips = << >> THEN s
    ELSE PlayClip(s, (s.current_index + 1) % Len(s.clips), io)

\* ReviewTab._next_clip
NextClip(s, io) ==
    IF s.current_index = NoneIndex \/ s.clips = << >> THEN s
    ELSE IF s.current_index + 1 < Len(s.clips)
    THEN PlayClip(s, s.current_index + 1, io)
    ELSE StopCurrent(s)

\* ReviewTab._previous_clip
PreviousClip(s, io) ==
    IF s.current_index = NoneIndex \/ s.clips = << >> THEN s
    ELSE IF s.current_index - 1 >= 0
    THEN PlayClip(s, s.current_index - 1, io)
    ELSE s

\* A pop that fills the hole with the last element.
Pop_SwapLast(seq, k) ==
    [j \in 1..(Len(seq) - 1) |-> IF j = k + 1 THEN seq[Len(seq)] ELSE seq[j]]

\* A pop that takes the first element whatever the index.
Pop_First(seq, k) == Tail(seq)

\* The sequence without its element at 0-based index k: list.pop(k).
Pop(seq, k) == [j \in 1..(Len(seq) - 1) |-> IF j <= k THEN seq[j] ELSE seq[j + 1]]

\* A _delete_clip that plays deleted_index without the min(..., len - 1).
DeleteConfirmed_NoClamp(s, clip, trash_ok, io) ==
    LET s1 == StopCurrent(s) IN
    IF ~(trash_ok /\ clip \in s.fs.files) THEN s1
    ELSE LET deleted_index == s.current_index
             rest == [j \in 1..(Len(s.clips) - 1) |->
                         IF j <= deleted_index THEN s.clips[j] ELSE s.clips[j + 1]]
             s2 == [s1 EXCEPT !.fs.files = @ \ {clip}, !.clips = rest,
                              !.packed = rest]
         IN  IF rest = << >>
             THEN [s2 EXCEPT !.current_index = NoneIndex]
             ELSE [PlayClip(s2, deleted_index, io) EXCEPT !.raised = FALSE]

\* A _delete_clip that pops the record before it moves the file to the trash.
DeleteConfirmed_PopFirst(s, clip, trash_ok, io) ==
    LET s1 == StopCurrent(s) IN
    IF ~(trash_ok /\ clip \in s.fs.files)
    THEN [s1 EXCEPT !.clips = Pop(s.clips, s.current_index)]
    ELSE LET deleted_index == s.current_index
             rest == Pop(s.clips, deleted_index)
             s2 == [s1 EXCEPT !.fs.files = @ \ {clip}, !.clips = rest,
                              !.packed = rest]
         IN  IF rest = << >>
             THEN [s2 EXCEPT !.current_index = NoneIndex]
             ELSE [PlayClip(s2, Min(deleted_index, Len(rest) - 1), io)
                      EXCEPT !.raised = FALSE]

\* ReviewTab._delete_clip after the confirmation: stop the player, move the
\* file of the clip taken before the dialog to the trash (send2trash raises
\* when it cannot), pop the record at the current index, destroy the widgets
\* of the list and create and pack one for each clip left, then play the clip at
\* min(deleted_index, len - 1) or, with no clip left, clear the index.
DeleteConfirmed(s, clip, trash_ok, io) ==
    LET s1 == StopCurrent(s) IN
    IF ~(trash_ok /\ clip \in s.fs.files) THEN s1
    ELSE LET deleted_index == s.current_index
             rest == Pop(s.clips, deleted_index)
             s2 == [s1 EXCEPT !.fs.files = @ \ {clip}, !.clips = rest,
                              !.packed = rest]
         IN  IF rest = << >>
             THEN [s2 EXCEPT !.current_index = NoneIndex]
             ELSE [PlayClip(s2, Min(deleted_index, Len(rest) - 1), io)
                      EXCEPT !.raised = FALSE]

\* ReviewTab._on_video_complete: with auto-play on, _advance_after_pause is
\* scheduled after the pause.
OnVideoComplete(s) ==
    IF s.auto_play THEN [s EXCEPT !.advance_timers = @ + 1] ELSE s

\* The callbacks a decoder thread of engine e invokes, in order: _update_frame
\* and _update_progress schedule a UI update with after(0, ...), and
\* _on_video_complete runs as it is called.
RECURSIVE ApplyCalls(_, _, _)
ApplyCalls(s, e, calls) ==
    IF calls = << >> THEN s
    ELSE LET c == Head(calls)
             s1 == IF c.cb = "complete" THEN OnVideoComplete(s)
                   ELSE [s EXCEPT !.queue = Append(@, [cb |-> c.cb, src |-> e,
                                                        val |-> c.val])]
         IN  ApplyCalls(s1, e, Tail(calls))

\* safe_update, run by the UI thread: show the frame (the image on the label is
\* not part of the state), or set the progress bar.
RunCallback(s, c) ==
    IF c.cb = "frame" THEN s
    ELSE [s EXCEPT !.progress_var = c.val]

(* ===================== ReviewTab: the playback speed =================== *)

\* An _update_speed that changes no engine.
UpdateSpeed_NoEngine(s, value) == s

\* ReviewTab._update_speed(value): the current player, if any, is given the
\* speed.
UpdateSpeed(s, value) ==
    IF s.player = NoPlayer THEN s
    ELSE [s EXCEPT !.engines[s.player] = SetSpeed(@, value)]

\* speed_steps of _increase_speed and _decrease_speed, in tenths.
SpeedSteps == {10, 15, 20, 40, 80}

\* ReviewTab._increase_speed: the next higher step, or 8x.
IncreaseSpeed(s) ==
    LET higher == {v \in SpeedSteps : v > s.speed_var}
        speed == IF higher # {} THEN CHOOSE v \in higher : \A w \in higher : v <= w
                 ELSE 80
    IN  UpdateSpeed([s EXCEPT !.speed_var = speed], speed)

\* ReviewTab._decrease_speed: the next lower step, or 1x.
DecreaseSpeed(s) ==
    LET lower == {v \in SpeedSteps : v < s.speed_var}
        speed == IF lower # {} THEN CHOOSE v \in lower : \A w \in lower : v >= w
                 ELSE 10
    IN  UpdateSpeed([s EXCEPT !.speed_var = speed], speed)

\* ReviewTab._reset_speed
ResetSpeed(s) == UpdateSpeed([s EXCEPT !.speed_var = 10], 10)

\* The speed slider of the settings panel is moved to value: the slider writes
\* its variable (speed_var) and SettingsPanelModal._update_speed hands the value
\* to ReviewTab._update_speed.
SlideSpeed(s, value) == UpdateSpeed([s EXCEPT !.speed_var = value], value)

(* ========================= ReviewTab: the search ======================= *)

\* Text is a sequence of one-character strings.  The letters the model's
\* titles, animal labels and queries use, in lower and in upper case.
LowerLetters == <<"a", "d", "e", "f", "i", "l", "m", "n", "o", "r", "s", "x">>
UpperLetters == <<"A", "D", "E", "F", "I", "L", "M", "N", "O", "R", "S", "X">>

IsLower(c) == \E i \in DOMAIN LowerLetters : LowerLetters[i] = c
IsUpper(c) == \E i \in DOMAIN UpperLetters : UpperLetters[i] = c
IsLetter(c) == IsLower(c) \/ IsUpper(c)

\* str.lower() and str.upper() on one character.
LowerChar(c) ==
    IF IsUpper(c) THEN LowerLetters[CHOOSE i \in DOMAIN UpperLetters : UpperLetters[i] = c]
    ELSE c
UpperChar(c) ==
    IF IsLower(c) THEN UpperLetters[CHOOSE i \in DOMAIN LowerLetters : LowerLetters[i] = c]
    ELSE c

\* str.lower()
StrLower(str) == [i \in 1..Len(str) |-> LowerChar(str[i])]

\* str.title(): the first letter of every run of letters in upper case, the
\* other letters in lower case.
StrTitle(str) ==
    [i \in 1..Len(str) |->
        IF i = 1 \/ ~IsLetter(str[i - 1]) THEN UpperChar(str[i]) ELSE LowerChar(str[i])]

\* str.replace(a, b) for one-character a and b.
StrReplace(str, a, b) == [i \in 1..Len(str) |-> IF str[i] = a THEN b ELSE str[i]]

\* needle in hay (Python's substring test; the empty text is in every text).
Contains(hay, needle) ==
    \E h \in {hay}, n \in {needle} :
        \E k \in 0..(Len(h) - Len(n)) : SubSeq(h, k + 1, k + Len(n)) = n

\* str.split(sep) for a one-character sep: the sequence of the parts.
RECURSIVE StrSplit(_, _)
StrSplit(str, sep) ==
    IF \A i \in DOMAIN str : str[i] # sep THEN <<str>>
    ELSE LET k == CHOOSE i \in DOMAIN str :
                      str[i] = sep /\ \A j \in 1..(i - 1) : str[j] # sep
         IN  <<SubSeq(str, 1, k - 1)>> \o StrSplit(SubSeq(str, k + 1, Len(str)), sep)

\* ', '.join(parts)
RECURSIVE StrJoin(_)
StrJoin(parts) ==
    IF parts = << >> THEN << >>
    ELSE IF Len(parts) = 1 THEN parts[1]
    ELSE parts[1] \o <<",", " ">> \o StrJoin(Tail(parts))

NoneText == <<"n", "o", "n", "e">>
NoAnimalsText == <<"N", "o", " ", "a", "n", "i", "m", "a", "l", "s">>

\* ReviewTab._format_animal_names: 'No animals' for '' and 'none'; else split
\* at '&', underscores to spaces, title case, joined with ', '.
FormatAnimalNames(raw) ==
    IF raw = << >> \/ raw = NoneText THEN NoAnimalsText
    ELSE LET parts == StrSplit(raw, "&")
         IN  StrJoin([i \in 1..Len(parts) |-> StrTitle(StrReplace(parts[i], "_", " "))])

\* The rows of the csv the search is run on: video_title and unique_animals of
\* the clip with number t.  Clips 1, 2, 3 are a red fox, a deer, and both;
\* further clips have no animal.
DigitChars == <<"1", "2", "3", "4", "5", "6", "7", "8", "9">>
TitleOf(t) == <<(IF t % 2 = 1 THEN "a" ELSE "D"), DigitChars[t]>>
UniqueAnimalsOf(t) ==
    IF t = 1 THEN <<"r", "e", "d", "_", "f", "o", "x">>
    ELSE IF t = 2 THEN <<"d", "e", "e", "r">>
    ELSE IF t = 3 THEN <<"r", "e", "d", "_", "f", "o", "x", "&", "d", "e", "e", "r">>
    ELSE << >>

\* _load_clips: clip['animals'] = unique_animals if unique_animals else 'none'
AnimalsOf(t) == IF UniqueAnimalsOf(t) # << >> THEN UniqueAnimalsOf(t) ELSE NoneText

\* widget.pack(...): a widget that is packed keeps its place in the packing
\* order, one that is not is put at the end.
Pack(order, w) ==
    IF \E i \in DOMAIN order : order[i] = w THEN order ELSE Append(order, w)

\* widget.pack_forget()
PackForget(order, w) == SelectSeq(order, LAMBDA x : x # w)

\* _on_search_changed, the test of one clip against search_var.get().lower()
SearchShows(search_text, t) ==
    \/ search_text = << >>
    \/ Contains(StrLower(TitleOf(t)), search_text)
    \/ Contains(StrLower(AnimalsOf(t)), search_text)

\* _on_search_changed: every clip, in catalog order, is packed or forgotten.
RECURSIVE FilterWidgets(_, _, _)
FilterWidgets(order, search_text, todo) ==
    IF todo = << >> THEN order
    ELSE LET o == IF SearchShows(search_text, Head(todo))
                  THEN Pack(order, Head(todo))
                  ELSE PackForget(order, Head(todo))
         IN  FilterWidgets(o, search_text, Tail(todo))

OnSearchChanged(s) ==
    LET text == StrLower(s.search_var)
    IN  [s EXCEPT !.packed = FilterWidgets(@, text, s.clips)]

\* _clear_search: the box is emptied and every clip is packed.
ClearSearchBox(s) ==
    [s EXCEPT !.search_var = << >>,
              !.packed = FilterWidgets(@, << >>, s.clips)]

\* _jump_to_first_match: the indices whose lower-cased title holds the
\* lower-cased text; the first is played, if there is one.
TitleMatches(search_var_, cs) ==
    LET text == StrLower(search_var_)
    IN  {i \in 0..(Len(cs) - 1) : Contains(StrLower(TitleOf(cs[i + 1])), text)}

\* A _jump_to_first_match that plays the last match.
JumpToFirstMatch_Last(s, io) ==
    LET m == TitleMatches(s.search_var, s.clips)
    IN  IF m = {} THEN s
        ELSE PlayClip(s, CHOOSE i \in m : \A j \in m : i >= j, io)

\* _jump_to_first_match: the first match is played, if there is one.
JumpToFirstMatch(s, io) ==
    LET m == TitleMatches(s.search_var, s.clips)
    IN  IF m = {} THEN s
        ELSE PlayClip(s, CHOOSE i \in m : \A j \in m : i <= j, io)

\* _on_search_and_jump (Return in the search box): _on_search_changed, then
\* _jump_to_first_match on the state it leaves.
OnSearchAndJump(s, io) == JumpToFirstMatch(OnSearchChanged(s), io)

(* ============================= TrailCamApp ============================= *)

\* The state of a process that is not running: nothing in memory.
Off(s, ph) ==
    [s EXCEPT !.engines = [e \in EngineIds |-> NewPlayer],
              !.threads = [i \in ThreadIds |-> NoThread],
              !.phase = ph, !.clips = << >>, !.current_index = NoneIndex,
              !.player = NoPlayer, !.queue = << >>, !.advance_timers = 0,
              !.progress_var = 0, !.auto_play = TRUE,
              !.speed_var = DefaultSpeedTenths, !.pause_var = DefaultPauseTenths,
              !.skip_confirm = FALSE, !.dialog = 0, !.sm_index = 0,
              !.search_var = << >>, !.packed = << >>,
              !.sm_dir = NoDir]

\* ReviewTab.__init__: no clips, no index, no player, confirmations on,
\* auto-play on, speed and pause from the preferences given (or the defaults).
ReviewTabInit(s, play_rate, pause) ==
    [s EXCEPT !.phase = "review", !.clips = << >>, !.current_index = NoneIndex,
              !.player = NoPlayer, !.skip_confirm = FALSE, !.auto_play = TRUE,
              !.search_var = << >>, !.packed = << >>,
              !.speed_var = play_rate, !.pause_var = pause, !.progress_var = 0]

\* TrailCamApp._auto_resume_review: a ReviewTab with the saved preferences,
\* then, when the csv exists, _load_clips and _play_clip at the session's index
\* if 0 <= index < len(clips).
AutoResumeReview(s, play_rate, pause, io1, io2) ==
    LET tab == ReviewTabInit(s, play_rate, pause)
    IN  IF ~HasExistingOutputs(tab) THEN tab
        ELSE LET s1 == LoadClips(tab, io1) IN
             IF s1.raised THEN s1
             ELSE IF s1.sm_index >= 0 /\ s1.sm_index < Len(s1.clips)
             THEN PlayClip(s1, s1.sm_index, io2)
             ELSE s1

\* TrailCamApp._show_review_screen(resume=True): a ReviewTab with default
\* preferences, then, when the csv exists, _load_clips and _play_clip at the
\* session's index if 0 < index < len(clips).
ShowReviewScreen(s, io1, io2) ==
    LET tab == ReviewTabInit(s, DefaultSpeedTenths, DefaultPauseTenths) IN
    IF ~HasExistingOutputs(tab) THEN tab
    ELSE LET s1 == LoadClips(tab, io1) IN
         IF s1.raised THEN s1
         ELSE IF s1.sm_index > 0 /\ s1.sm_index < Len(s1.clips)
         THEN PlayClip(s1, s1.sm_index, io2)
         ELSE s1

\* TrailCamApp.__init__: a new SessionManager with the default clips directory
\* when that exists, load_state, and auto-resume when the state validates,
\* else the startup screen.  An exception out of load_state ends the process.
AppInit(s, io1, io2) ==
    LET s0 == [Off(s, "startup") EXCEPT
                  !.sm_dir = IF DefaultDir \in s.fs.exists THEN DefaultDir ELSE NoDir]
    IN  IF LoadRaises(s.disk) \/ LoadMkdirRaises(s.disk, io1) THEN Off(s, "crashed")
        ELSE IF LoadReturnsState(s.disk) /\ ValidateState(s.disk, s.fs)
        THEN AutoResumeReview(RestoreFromState(s0, s.disk),
                              s.disk.play_rate, s.disk.pause, io1, io2)
        ELSE s0

\* TrailCamApp._on_closing: save_state when a review screen exists, any
\* exception swallowed, then destroy.
OnClosing(s, io) ==
    Off(IF s.phase = "review" THEN [SaveState(s, io) EXCEPT !.raised = FALSE] ELSE s,
        "off")

(* ================================ Spec ================================= *)

\* session.json as the process may find it at its first start.
InitFiles ==
    {NoFile, GarbageFile, NonObjectFile}
    \cup {FileOf("record", v, d, k, DefaultSpeedTenths, DefaultPauseTenths) :
            v \in {"1.0", "0.9"}, d \in {NoDir} \cup Dirs, k \in 0..(NumClips - 1)}

\* The file system at the first start: which directories exist, which of them
\* hold the pipeline's csv, which titles have a media file.
InitFs ==
    {[exists |-> x, csv |-> c, files |-> Titles, rows |-> Rows] :
        x \in SUBSET Dirs, c \in SUBSET Dirs}

Init ==
    /\ engines = [e \in EngineIds |-> NewPlayer]
    /\ threads = [i \in ThreadIds |-> NoThread]
    /\ completions = 0
    /\ loads = FALSE
    /\ AppOff
    /\ pipeline = NoPipeline
    /\ capture = NoCapture
    /\ overlay = NoOverlay
    /\ runner = NoRunner
    /\ disk \in InitFiles
    /\ fs \in {f \in InitFs : f.csv \subseteq f.exists}

Stopped == phase \in {"off", "crashed"}
Reviewing == phase = "review"
\* The keyboard and the clip list reach the tab: it is shown and no modal
\* confirmation dialog holds the grab.
Interactive == phase = "review" /\ dialog = 0

\* The process is started.
Startup ==
    /\ Stopped
    /\ \E io1, io2 \in SaveOutcomes : Set(AppInit(Cur, io1, io2))

\* The "Resume Review" button of the startup screen.
ResumeReview ==
    /\ phase = "startup"
    /\ HasExistingOutputs(Cur)
    /\ \E io1, io2 \in SaveOutcomes : Set(ShowReviewScreen(Cur, io1, io2))

\* The window is closed.
Close ==
    /\ phase \in {"startup", "review"}
    /\ dialog = 0
    /\ \E io \in SaveOutcomes : Set(OnClosing(Cur, io))

\* While the process is not running, the csv of a directory, or the directory
\* with it, is deleted.
EnvRemove ==
    /\ Stopped
    /\ \E d \in fs.exists, whole \in BOOLEAN :
           /\ fs' = [fs EXCEPT !.csv = @ \ {d},
                               !.exists = IF whole THEN @ \ {d} ELSE @]
           /\ fs' # fs
    /\ UNCHANGED <<engines, threads, completions, loads, phase, clips, current_index,
                   player, queue, advance_timers, progress_var,
                   auto_play, speed_var, pause_var, skip_confirm, dialog, search_var,
                   packed, sm_index,
                   sm_dir, disk, pipeline, capture, overlay, runner>>

\* A click on the clip at index i of the list.
PlayAt ==
    /\ Interactive
    /\ \E i \in 0..(Len(clips) - 1), io \in SaveOutcomes : Set(PlayClip(Cur, i, io))

\* Key n.
Next_ ==
    /\ Interactive
    /\ \E io \in SaveOutcomes : Set(NextClip(Cur, io))

\* Key p.
Previous ==
    /\ Interactive
    /\ \E io \in SaveOutcomes : Set(PreviousClip(Cur, io))

\* Key d, ReviewTab._delete_clip up to the confirmation: nothing without a
\* current clip; with confirmations skipped the deletion proceeds; otherwise the
\* modal dialog opens for the current clip.
DeleteKey ==
    /\ Interactive
    /\ IF current_index = NoneIndex \/ clips = << >> THEN Set(Cur)
       ELSE IF skip_confirm
       THEN \E trash_ok \in BOOLEAN, io \in SaveOutcomes :
                Set(DeleteConfirmed(Cur, clips[current_index + 1], trash_ok, io))
       ELSE Set([Cur EXCEPT !.dialog = clips[current_index + 1]])

\* Yes in the confirmation dialog, with or without the skip-confirmation
\* checkbox ticked: _delete_clip goes on with the clip it took before the
\* dialog opened.
DialogYes ==
    /\ Reviewing
    /\ dialog # 0
    /\ \E dont_ask, trash_ok \in BOOLEAN, io \in SaveOutcomes :
           Set(DeleteConfirmed([Cur EXCEPT !.dialog = 0,
                                           !.skip_confirm = IF dont_ask THEN TRUE ELSE @],
                               dialog, trash_ok, io))

\* No in the confirmation dialog: the checkbox is ignored, nothing is deleted.
DialogNo ==
    /\ Reviewing
    /\ dialog # 0
    /\ Set([Cur EXCEPT !.dialog = 0])

\* Key a, ReviewTab._toggle_auto_play.
ToggleAutoPlay ==
    /\ Interactive
    /\ Set([Cur EXCEPT !.auto_play = ~@])

\* Key space, ReviewTab._toggle_pause.
TogglePauseKey ==
    /\ Interactive
    /\ player # NoPlayer
    /\ Set([Cur EXCEPT !.engines[player] = TogglePause(@)])

\* Key q, ReviewTab._stop_playback.
StopPlayback ==
    /\ Interactive
    /\ player # NoPlayer
    /\ Set(StopCurrent(Cur))

\* The UI thread runs the oldest after(0, ...) callback.
RunQueued ==
    /\ Reviewing
    /\ queue # << >>
    /\ Set(RunCallback([Cur EXCEPT !.queue = Tail(@)], Head(queue)))

\* An _advance_after_pause timer fires: _next_clip.
AdvanceAfterPause ==
    /\ Reviewing
    /\ advance_timers > 0
    /\ \E io \in SaveOutcomes :
           Set(NextClip([Cur EXCEPT !.advance_timers = @ - 1], io))

\* A decoder thread at the top of its loop.
T_Check ==
    \E i \in ThreadIds :
        /\ Reviewing
        /\ threads[i].pc = "top"
        /\ Set([Cur EXCEPT !.threads[i] = ThreadCheck(engines[threads[i].eng], @)])

\* A decoder thread reads (and skips) frames.
T_Read ==
    \E i \in ThreadIds :
        /\ Reviewing
        /\ threads[i].pc = "read"
        /\ LET e == threads[i].eng IN
           \E o \in ThreadReadOutcomes(engines[e], threads[i]) :
               /\ o.t.current_frame <= MaxCurrentFrame
               /\ Set(ApplyCalls([Cur EXCEPT !.engines[e] = o.p, !.threads[i] = o.t],
                                 e, o.calls))

\* A decoder thread reports the progress of the frame it has read.
T_Progress ==
    \E i \in ThreadIds :
        /\ Reviewing
        /\ threads[i].pc = "progress"
        /\ LET e == threads[i].eng IN
           Set(ApplyCalls([Cur EXCEPT !.threads[i] = ThreadProgress(@)], e,
                          ThreadProgressCalls(engines[e], threads[i])))

\* A decoder thread delivers the frame it has read.
T_Frame ==
    \E i \in ThreadIds :
        /\ Reviewing
        /\ threads[i].pc = "frame"
        /\ Set(ApplyCalls([Cur EXCEPT !.threads[i] = ThreadFrame(@)],
                          threads[i].eng, ThreadFrameCalls))

Next ==
    \/ Startup
    \/ ResumeReview
    \/ Close
    \/ EnvRemove
    \/ PlayAt
    \/ Next_
    \/ Previous
    \/ DeleteKey
    \/ DialogYes
    \/ DialogNo
    \/ ToggleAutoPlay
    \/ TogglePauseKey
    \/ StopPlayback
    \/ RunQueued
    \/ AdvanceAfterPause
    \/ T_Check
    \/ T_Read
    \/ T_Progress
    \/ T_Frame

Spec == Init /\ [][Next]_vars

(* ================== SpecSearch: the search box of a tab ================= *)

\* The texts typed into the search box.
Queries ==
    { << >>,
      <<" ">>,
      <<"f", "o", "x">>,
      <<"r", "e", "d", " ", "f", "o", "x">>,
      <<"A">>,
      <<"d">>,
      <<"x", "x">> }

\* The catalogs: the clips 1..NumSearchClips, any of them, in any order.
SearchTitles == 1..NumSearchClips
Catalogs ==
    {c \in UNION {[1..n -> SearchTitles] : n \in 0..NumSearchClips} :
        \A i, j \in DOMAIN c : i # j => c[i] # c[j]}

\* A review tab on which _load_clips has found the catalog c and played its
\* first clip, at the given play rate, auto-play off, all media files present.
LoadedTab(c, play_rate) ==
    LET tab == [engines |-> [e \in EngineIds |-> NewPlayer],
                threads |-> [i \in ThreadIds |-> NoThread],
                phase |-> "review", clips |-> c, current_index |-> NoneIndex,
                player |-> NoPlayer, queue |-> << >>, advance_timers |-> 0,
                progress_var |-> 0, auto_play |-> FALSE,
                speed_var |-> play_rate, pause_var |-> DefaultPauseTenths,
                skip_confirm |-> FALSE, dialog |-> 0,
                search_var |-> << >>, packed |-> c, sm_index |-> 0,
                sm_dir |-> DefaultDir, disk |-> NoFile,
                fs |-> [exists |-> {DefaultDir}, csv |-> {DefaultDir},
                        files |-> {c[i] : i \in DOMAIN c}, rows |-> c],
                blocked |-> FALSE, raised |-> FALSE]
    IN  IF c = << >> THEN tab ELSE Collect(PlayClip(tab, 0, "ok"))

\* The variables hold the application state s.
InitAs(s) ==
    /\ engines = s.engines
    /\ threads = s.threads
    /\ phase = s.phase
    /\ clips = s.clips
    /\ current_index = s.current_index
    /\ player = s.player
    /\ queue = s.queue
    /\ advance_timers = s.advance_timers
    /\ progress_var = s.progress_var
    /\ auto_play = s.auto_play
    /\ speed_var = s.speed_var
    /\ pause_var = s.pause_var
    /\ skip_confirm = s.skip_confirm
    /\ dialog = s.dialog
    /\ search_var = s.search_var
    /\ packed = s.packed
    /\ sm_index = s.sm_index
    /\ sm_dir = s.sm_dir
    /\ disk = s.disk
    /\ fs = s.fs
    /\ pipeline = NoPipeline
    /\ capture = NoCapture
    /\ overlay = NoOverlay
    /\ runner = NoRunner

SearchInit ==
    /\ completions = 0
    /\ loads = FALSE
    /\ \E c \in Catalogs : \E s \in {LoadedTab(c, DefaultSpeedTenths)} : InitAs(s)

\* A text is typed and the search button is clicked.
Search ==
    /\ Interactive
    /\ \E q \in Queries : Set(OnSearchChanged([Cur EXCEPT !.search_var = q]))

\* The clear button, or Escape in the search box.
ClearSearch ==
    /\ Interactive
    /\ Set(ClearSearchBox(Cur))

\* A text is typed and Return is pressed in the search box.
SearchAndJump ==
    /\ Interactive
    /\ \E q \in Queries, io \in SaveOutcomes :
           Set(OnSearchAndJump([Cur EXCEPT !.search_var = q], io))

SearchNext ==
    \/ Search
    \/ ClearSearch
    \/ SearchAndJump
    \/ RunQueued
    \/ T_Check
    \/ T_Read
    \/ T_Progress
    \/ T_Frame

SpecSearch == SearchInit /\ [][SearchNext]_vars

(* ======== SpecPipeline: summarize_videos.py, then _load_clips ========== *)

\* The extensions _load_clips probes, in its order.
Exts == <<".mp4", ".MP4", ".mov", ".MOV">>

\* The videos of the frame predictions, and the values of their animal column:
\* empty, deer, and the red fox written with a space and with an underscore.
VideoTitles == {"a", "b"}
Labels ==
    { << >>,
      <<"d", "e", "e", "r">>,
      <<"r", "e", "d", " ", "f", "o", "x">>,
      <<"r", "e", "d", "_", "f", "o", "x">> }

\* The frames of one video are at most this many.
MaxFrames == 2

\* The files a clips directory can hold: a title with one of the extensions.
MediaFiles == {[title |-> t, ext |-> Exts[i]] : t \in VideoTitles, i \in DOMAIN Exts}

\* _find_clip returns None.
NoPath == [title |-> "", ext |-> ""]

\* A _find_clip that returns the last candidate that exists.
FindClipPath_Last(title, listing) ==
    LET hits == {i \in DOMAIN Exts : [title |-> title, ext |-> Exts[i]] \in listing}
    IN  IF hits = {} THEN NoPath
        ELSE [title |-> title, ext |-> Exts[CHOOSE i \in hits : \A j \in hits : j <= i]]

\* ReviewTab._find_clip: the first candidate title + ext that exists, or None.
FindClipPath(title, listing) ==
    LET hits == {i \in DOMAIN Exts : [title |-> title, ext |-> Exts[i]] \in listing}
    IN  IF hits = {} THEN NoPath
        ELSE [title |-> title, ext |-> Exts[CHOOSE i \in hits : \A j \in hits : i <= j]]

\* normalize_animal: name.replace(" ", "_")
NormalizeAnimal(name) == StrReplace(name, " ", "_")

\* The characters of the labels in the order of their code points.
CharOrder == <<" ", "&", "_", "d", "e", "f", "o", "r", "x">>
CharCode(c) == CHOOSE i \in DOMAIN CharOrder : CharOrder[i] = c

\* a < b for Python strings.
RECURSIVE StrLess(_, _)
StrLess(a, b) ==
    IF b = << >> THEN FALSE
    ELSE IF a = << >> THEN TRUE
    ELSE IF Head(a) # Head(b) THEN CharCode(Head(a)) < CharCode(Head(b))
    ELSE StrLess(Tail(a), Tail(b))

\* sorted(normalize_animal(a) for a in uniq): one entry for every element of
\* uniq, in ascending order of the normalized names.
RECURSIVE SortedNormalized(_)
SortedNormalized(uniq) ==
    IF uniq = {} THEN << >>
    ELSE LET m == CHOOSE x \in uniq :
                      \A y \in uniq : ~StrLess(NormalizeAnimal(y), NormalizeAnimal(x))
         IN  <<NormalizeAnimal(m)>> \o SortedNormalized(uniq \ {m})

\* "&".join(parts)
RECURSIVE JoinAmp(_)
JoinAmp(parts) ==
    IF parts = << >> THEN << >>
    ELSE IF Len(parts) = 1 THEN parts[1]
    ELSE parts[1] \o <<"&">> \o JoinAmp(Tail(parts))

\* summarize_videos.aggregate: one row for each video, in the order of the
\* dict; uniq is the set of the non-empty animal values as they are written.
Aggregate(per_video) ==
    [i \in DOMAIN per_video |->
        LET animals == per_video[i].animals
            uniq == {animals[k] : k \in DOMAIN animals} \ {<< >>}
        IN  [video_title |-> per_video[i].video,
             unique_animals |-> IF uniq # {} THEN JoinAmp(SortedNormalized(uniq))
                                ELSE << >>,
             multiple_animals |-> IF Cardinality(uniq) > 1 THEN "true" ELSE "false"]]

\* ReviewTab._load_clips, the loop over the rows of the csv: a record for every
\* row whose clip file is found, in the order of the rows.  (write_output and
\* csv.DictReader return these values, which hold no comma, quote or line
\* break, as they were written.)
LoadRecords(rows, listing) ==
    LET found == SelectSeq(rows, LAMBDA r : FindClipPath(r.video_title, listing) # NoPath)
    IN  [i \in DOMAIN found |->
            [path |-> FindClipPath(found[i].video_title, listing),
             title |-> found[i].video_title,
             animals |-> IF found[i].unique_animals # << >>
                         THEN found[i].unique_animals ELSE NoneText,
             unique_animals |-> found[i].unique_animals,
             multiple |-> found[i].multiple_animals = "true"]]

\* The animal values of the frames of one video.
AnimalLists == UNION {[1..n -> Labels] : n \in 0..MaxFrames}

\* load_predictions: the videos in the order of their first frame, each with
\* the animal values of its frames.
Predictions ==
    {pv \in UNION {[1..n -> [video : VideoTitles, animals : AnimalLists]] :
                      n \in 0..Cardinality(VideoTitles)} :
        \A i, j \in DOMAIN pv : i # j => pv[i].video # pv[j].video}

PipelineInit ==
    /\ engines = [e \in EngineIds |-> NewPlayer]
    /\ threads = [i \in ThreadIds |-> NoThread]
    /\ completions = 0
    /\ loads = FALSE
    /\ AppOff
    /\ disk = NoFile
    /\ fs = [exists |-> {}, csv |-> {}, files |-> {}, rows |-> << >>]
    /\ \E pv \in Predictions, l \in SUBSET MediaFiles :
           pipeline = [stage |-> "predicted", per_video |-> pv, listing |-> l,
                       rows |-> << >>, clips |-> << >>]
    /\ capture = NoCapture
    /\ overlay = NoOverlay
    /\ runner = NoRunner

\* summarize_videos.main: aggregate and write_output.
Summarize ==
    /\ pipeline.stage = "predicted"
    /\ pipeline' = [pipeline EXCEPT !.stage = "summarized",
                                    !.rows = Aggregate(pipeline.per_video)]
    /\ UNCHANGED <<engines, threads, completions, loads, phase, clips, current_index,
                   player, queue, advance_timers, progress_var, auto_play,
                   speed_var, pause_var, skip_confirm, dialog, search_var, packed,
                   sm_index, sm_dir, disk, fs, capture, overlay, runner>>

\* _load_clips reads the csv and builds self.clips.
LoadSummary ==
    /\ pipeline.stage = "summarized"
    /\ pipeline' = [pipeline EXCEPT !.stage = "loaded",
                                    !.clips = LoadRecords(pipeline.rows, pipeline.listing)]
    /\ UNCHANGED <<engines, threads, completions, loads, phase, clips, current_index,
                   player, queue, advance_timers, progress_var, auto_play,
                   speed_var, pause_var, skip_confirm, dialog, search_var, packed,
                   sm_index, sm_dir, disk, fs, capture, overlay, runner>>

PipelineNext == Summarize \/ LoadSummary

SpecPipeline == PipelineInit /\ [][PipelineNext]_vars

(* ============ SpecPlayback: a tab playing at 2x and at 4x ============== *)

\* The play rates the tab starts with, in tenths: at 2.0 a clip of NumFrames
\* frames is read in several ticks, at 4.0 in one.
PlaybackRates == {20, 40}

PlaybackInit ==
    /\ completions = 0
    /\ loads = FALSE
    /\ \E r \in PlaybackRates : \E s \in {LoadedTab(Rows, r)} : InitAs(s)

PlaybackNext ==
    \/ PlayAt
    \/ TogglePauseKey
    \/ StopPlayback
    \/ RunQueued
    \/ T_Check
    \/ T_Read
    \/ T_Progress
    \/ T_Frame

SpecPlayback == PlaybackInit /\ [][PlaybackNext]_vars

(* ========== SpecSpeed: a tab whose playback speed is changed =========== *)

\* Keys + and =, key -, key 0.
IncreaseSpeedKey == Interactive /\ Set(IncreaseSpeed(Cur))
DecreaseSpeedKey == Interactive /\ Set(DecreaseSpeed(Cur))
ResetSpeedKey == Interactive /\ Set(ResetSpeed(Cur))

\* Positions the speed slider (0.5 to 8.0 in steps of 0.5) is moved to, in
\* tenths: its lowest, and one that is no step of the keys.
SliderSpeeds == {5, 25}

SpeedSlider == Interactive /\ \E v \in SliderSpeeds : Set(SlideSpeed(Cur, v))

SpeedInit ==
    /\ completions = 0
    /\ loads = FALSE
    /\ \E s \in {LoadedTab(Rows, DefaultSpeedTenths)} : InitAs(s)

SpeedNext ==
    \/ PlayAt
    \/ IncreaseSpeedKey
    \/ DecreaseSpeedKey
    \/ ResetSpeedKey
    \/ SpeedSlider
    \/ RunQueued
    \/ T_Check
    \/ T_Read
    \/ T_Progress
    \/ T_Frame

SpecSpeed == SpeedInit /\ [][SpeedNext]_vars

(* ===== SpecCatalog: a catalog is loaded, filtered, browsed, pruned ===== *)

\* The csv holds the rows of the clips 1..NumSearchClips in any order.  Of the
\* decoder threads only the test at the top of the loop is taken: a thread
\* ends when its engine is stopped, and reads no frame.
RowOrders == {c \in Catalogs : Len(c) = NumSearchClips}

\* The startup screen of a process that found no session file, with the
\* default directory, its csv and every media file in place.
CatalogInit ==
    /\ completions = 0
    /\ loads = FALSE
    /\ \E r \in RowOrders :
           InitAs([Collect(Off(LoadedTab(<< >>, DefaultSpeedTenths), "startup")) EXCEPT
                      !.sm_dir = DefaultDir,
                      !.fs = [exists |-> {DefaultDir}, csv |-> {DefaultDir},
                              files |-> SearchTitles, rows |-> r]])

CatalogNext ==
    \/ ResumeReview
    \/ Search
    \/ ClearSearch
    \/ PlayAt
    \/ Next_
    \/ Previous
    \/ DeleteKey
    \/ DialogYes
    \/ DialogNo
    \/ T_Check

SpecCatalog == CatalogInit /\ [][CatalogNext]_vars

(* ====== SpecOpenFail: a tab whose media files vanish while it is shown ===== *)

\* A media file of the directory is removed by another program while the tab
\* is shown: cv2.VideoCapture on its path then gives a capture that is not
\* opened.
EnvRemoveFile ==
    /\ Reviewing
    /\ \E t \in fs.files : Set([Cur EXCEPT !.fs.files = @ \ {t}])

OpenFailInit ==
    /\ completions = 0
    /\ loads = FALSE
    /\ \E a \in BOOLEAN :
           \E s \in {[LoadedTab(Rows, DefaultSpeedTenths) EXCEPT !.auto_play = a]} :
               InitAs(s)

OpenFailNext ==
    \/ EnvRemoveFile
    \/ PlayAt
    \/ Next_
    \/ Previous
    \/ RunQueued
    \/ AdvanceAfterPause
    \/ T_Check
    \/ T_Read
    \/ T_Progress
    \/ T_Frame

SpecOpenFail == OpenFailInit /\ [][OpenFailNext]_vars

(* ===== SpecCapture: video_client.VideoCapture and the video backend ===== *)

SessionIds == 1..MaxSessions

\* What a VideoCapture is constructed on: no path, a path with no file, a file
\* OpenCV cannot open, a video file.
Paths == {"", "missing", "corrupt", "video"}

\* An HTTP request of the client: answered, failed before it reached the
\* backend (connection refused, timeout), or handled by the backend with the
\* response lost (timeout).  The last two raise requests.RequestException.
NetOutcomes == {"ok", "down", "lost"}

\* VideoCapture.__init__ before _open: session_id None, _opened False.
NewClient == [session_id |-> 0, opened |-> FALSE]

\* video_backend.open_video: 404 for a missing file, 400 for a file that does
\* not open, else a new session under a fresh id.
OpenVideo(sessions, path) ==
    IF path = "missing" THEN [status |-> 404, session_id |-> 0, sessions |-> sessions]
    ELSE IF path = "corrupt" THEN [status |-> 400, session_id |-> 0, sessions |-> sessions]
    ELSE LET id == CHOOSE i \in SessionIds :
                       /\ ~sessions[i].live
                       /\ \A j \in SessionIds : ~sessions[j].live => i <= j
         IN  [status |-> 200, session_id |-> id,
              sessions |-> [sessions EXCEPT ![id] = [live |-> TRUE, pos |-> 0]]]

\* video_backend.read_frame and grab_frame: 404 for an unknown session, else
\* the capture advances by one frame unless it is at the end of the file.
ReadFrame(sessions, id) ==
    IF ~sessions[id].live THEN [status |-> 404, success |-> FALSE, sessions |-> sessions]
    ELSE IF sessions[id].pos < NumFrames
    THEN [status |-> 200, success |-> TRUE,
          sessions |-> [sessions EXCEPT ![id].pos = @ + 1]]
    ELSE [status |-> 200, success |-> FALSE, sessions |-> sessions]

\* video_backend.close_video: releases and forgets the session, 404 for an
\* unknown one.
CloseVideo(sessions, id) ==
    IF sessions[id].live
    THEN [status |-> 200, sessions |-> [sessions EXCEPT ![id] = [live |-> FALSE, pos |-> 0]]]
    ELSE [status |-> 404, sessions |-> sessions]

\* The sessions of the backend after a request with outcome net whose handler
\* would leave them as after.
Backend(c, net, after) == IF net = "down" THEN c.sessions ELSE after

\* VideoCapture.__init__(path): _open when the path is not empty; a
\* RequestException (no answer, or an error status through raise_for_status)
\* is caught and leaves the capture not opened.
CaptureNew(c, path, net) ==
    IF path = ""
    THEN [c EXCEPT !.client = NewClient, !.op = "new", !.result = "returned",
                   !.requests = 0, !.released = FALSE, !.calls = @ + 1]
    ELSE LET r == OpenVideo(c.sessions, path)
             ok == net = "ok" /\ r.status = 200
         IN  [c EXCEPT !.client = IF ok THEN [session_id |-> r.session_id, opened |-> TRUE]
                                  ELSE NewClient,
                       !.sessions = Backend(c, net, r.sessions),
                       !.op = "new", !.result = "returned", !.requests = 1,
                       !.released = FALSE, !.calls = @ + 1]

\* VideoCapture.read and VideoCapture.grab: (False, None) / False without a
\* request when the capture is not opened or has no session; otherwise one
\* request, and failure when it raises or the backend reports no success.
CaptureFetch(c, net, op) ==
    IF ~c.client.opened \/ c.client.session_id = 0
    THEN [c EXCEPT !.op = op, !.result = "fail", !.requests = 0, !.calls = @ + 1]
    ELSE LET r == ReadFrame(c.sessions, c.client.session_id)
             ok == net = "ok" /\ r.status = 200 /\ r.success
         IN  [c EXCEPT !.sessions = Backend(c, net, r.sessions),
                       !.op = op, !.result = IF ok THEN "frame" ELSE "fail",
                       !.requests = 1, !.calls = @ + 1]

CaptureRead(c, net) == CaptureFetch(c, net, "read")
CaptureGrab(c, net) == CaptureFetch(c, net, "grab")

\* A release whose close request is not guarded: a RequestException leaves
\* release before the session id and the opened flag are cleared.
CaptureRelease_NoCatch(c, net) ==
    IF c.client.session_id # 0 /\ net # "ok"
    THEN [c EXCEPT !.sessions = Backend(c, net, CloseVideo(c.sessions, c.client.session_id).sessions),
                   !.op = "release", !.result = "raised", !.requests = 1,
                   !.released = TRUE, !.calls = @ + 1]
    ELSE [c EXCEPT !.client = NewClient,
                   !.sessions = IF c.client.session_id # 0
                                THEN CloseVideo(c.sessions, c.client.session_id).sessions
                                ELSE @,
                   !.op = "release", !.result = "returned",
                   !.requests = IF c.client.session_id # 0 THEN 1 ELSE 0,
                   !.released = TRUE, !.calls = @ + 1]

\* VideoCapture.release: with a session, one close request whose
\* RequestException is ignored and whose status is not looked at, then the
\* session id is cleared; the opened flag is cleared in every case.
CaptureRelease(c, net) ==
    IF c.client.session_id # 0
    THEN [c EXCEPT !.client = NewClient,
                   !.sessions = Backend(c, net, CloseVideo(c.sessions, c.client.session_id).sessions),
                   !.op = "release", !.result = "returned", !.requests = 1,
                   !.released = TRUE, !.calls = @ + 1]
    ELSE [c EXCEPT !.client.opened = FALSE,
                   !.op = "release", !.result = "returned", !.requests = 0,
                   !.released = TRUE, !.calls = @ + 1]

CaptureInit ==
    /\ engines = [e \in EngineIds |-> NewPlayer]
    /\ threads = [i \in ThreadIds |-> NoThread]
    /\ completions = 0
    /\ loads = FALSE
    /\ AppOff
    /\ disk = NoFile
    /\ fs = [exists |-> {}, csv |-> {}, files |-> {}, rows |-> << >>]
    /\ pipeline = NoPipeline
    /\ capture = NoCapture
    /\ overlay = NoOverlay
    /\ runner = NoRunner

NotCapture ==
    UNCHANGED <<engines, threads, completions, loads, phase, clips, current_index,
                player, queue, advance_timers, progress_var, auto_play,
                speed_var, pause_var, skip_confirm, dialog, search_var, packed,
                sm_index, sm_dir, disk, fs, pipeline, overlay, runner>>

\* A caller constructs a VideoCapture; the one it had is dropped as it is.
C_New ==
    /\ capture.calls < MaxCalls
    /\ \E path \in Paths, net \in NetOutcomes :
           /\ path = "video" /\ net # "down"
                  => \E i \in SessionIds : ~capture.sessions[i].live
           /\ capture' = CaptureNew(capture, path, net)
    /\ NotCapture

C_Read ==
    /\ capture.op # "none"
    /\ capture.calls < MaxCalls
    /\ \E net \in NetOutcomes : capture' = CaptureRead(capture, net)
    /\ NotCapture

C_Grab ==
    /\ capture.op # "none"
    /\ capture.calls < MaxCalls
    /\ \E net \in NetOutcomes : capture' = CaptureGrab(capture, net)
    /\ NotCapture

C_Release ==
    /\ capture.op # "none"
    /\ capture.calls < MaxCalls
    /\ \E net \in NetOutcomes : capture' = CaptureRelease(capture, net)
    /\ NotCapture

CaptureNext ==
    \/ C_New
    \/ C_Read
    \/ C_Grab
    \/ C_Release

SpecCapture == CaptureInit /\ [][CaptureNext]_vars

(* ===== SpecOverlay: the settings panel and the advanced menu of a tab ===== *)

\* The tab has a player that is not paused.
Playing == player # NoPlayer /\ ~engines[player].paused

\* The tab as it is, or with the pause of its player toggled.
PauseToggledIf(b) ==
    IF b THEN [Cur EXCEPT !.engines[player] = TogglePause(@)] ELSE Cur

\* Key s or the settings button, ReviewTab._show_settings_panel: remember
\* whether the player was playing, pause it if so, show the modal panel.
ShowSettingsPanel ==
    /\ Interactive
    /\ overlay.open = "none"
    /\ SetTab(PauseToggledIf(Playing))
    /\ overlay' = [overlay EXCEPT !.open = "settings",
                                  !.was_playing_before_settings = Playing,
                                  !.paused_before = player # NoPlayer /\ ~Playing]

\* The settings panel is closed, ReviewTab._on_settings_close: toggle the pause
\* of the tab's player if the flag is set and there is a player.
OnSettingsClose ==
    /\ Reviewing
    /\ overlay.open = "settings"
    /\ SetTab(PauseToggledIf(overlay.was_playing_before_settings /\ player # NoPlayer))
    /\ overlay' = [overlay EXCEPT !.open = "none"]

\* The menu button, ReviewTab._show_advanced_menu.
ShowAdvancedMenu ==
    /\ Interactive
    /\ overlay.open = "none"
    /\ SetTab(PauseToggledIf(Playing))
    /\ overlay' = [overlay EXCEPT !.open = "menu",
                                  !.was_playing_before_menu = Playing,
                                  !.paused_before = player # NoPlayer /\ ~Playing]

\* Esc or the window close button of the menu, ReviewTab._close_advanced_menu.
CloseAdvancedMenu ==
    /\ Reviewing
    /\ overlay.open = "menu"
    /\ SetTab(PauseToggledIf(overlay.was_playing_before_menu /\ player # NoPlayer))
    /\ overlay' = [overlay EXCEPT !.open = "none"]

\* The clip list and the space key while no overlay holds the grab.
ClickClip == overlay.open = "none" /\ PlayAt
SpaceKey == overlay.open = "none" /\ TogglePauseKey

OverlayInit ==
    /\ completions = 0
    /\ loads = FALSE
    /\ \E a \in BOOLEAN :
           \E s \in {[LoadedTab(Rows, DefaultSpeedTenths) EXCEPT !.auto_play = a]} :
               InitAs(s)

OverlayNext ==
    \/ ShowSettingsPanel
    \/ OnSettingsClose
    \/ ShowAdvancedMenu
    \/ CloseAdvancedMenu
    \/ ClickClip
    \/ SpaceKey
    \/ RunQueued
    \/ AdvanceAfterPause
    \/ T_Check
    \/ T_Read
    \/ T_Progress
    \/ T_Frame

SpecOverlay == OverlayInit /\ [][OverlayNext]_vars

(* ======= SpecAuto: auto-play runs the list with no input from the user ====== *)

\* A tab whose first clip has played to its end with auto-play on: the decoder
\* thread has ended, the progress bar is full and the _advance_after_pause
\* timer is pending.
CountingDown(play_rate) ==
    [LoadedTab(Rows, play_rate) EXCEPT
        !.auto_play = TRUE,
        !.engines[1].running = FALSE,
        !.engines[1].pos = NumFrames,
        !.threads = [i \in ThreadIds |-> NoThread],
        !.progress_var = 100,
        !.advance_timers = 1]

\* The tab just after the user has clicked clip i (playAt(i)) with auto-play
\* on: on a tab whose first clip has just started, or during the countdown that
\* follows the first clip.
AutoInit ==
    /\ completions = 0
    /\ loads = FALSE
    /\ \E r \in PlaybackRates, i \in 0..(NumClips - 1) :
       \E pre \in {[LoadedTab(Rows, r) EXCEPT !.auto_play = TRUE], CountingDown(r)} :
           InitAs(Collect(PlayClip(pre, i, "ok")))

AutoNext ==
    \/ RunQueued
    \/ AdvanceAfterPause
    \/ T_Check
    \/ T_Read
    \/ T_Progress
    \/ T_Frame

\* The Tk event loop runs every callback and timer that is due, and every
\* decoder thread is scheduled.
AutoFairness ==
    /\ WF_vars(RunQueued)
    /\ WF_vars(AdvanceAfterPause)
    /\ WF_vars(T_Check)
    /\ WF_vars(T_Read)
    /\ WF_vars(T_Progress)
    /\ WF_vars(T_Frame)

SpecAuto == AutoInit /\ [][AutoNext]_vars /\ AutoFairness

(* ========= SpecLoad: _load_clips called on a tab that is in use ========= *)

\* The directory the tab loads from: clips_dir_callback().
ClipsDir == IF sm_dir # NoDir THEN sm_dir ELSE DefaultDir

\* While the tab is shown, the csv of the clips directory, or the directory
\* with it, is deleted by another program.
EnvRemoveOutputs ==
    /\ Reviewing
    /\ \E whole \in BOOLEAN :
           /\ fs' = [fs EXCEPT !.csv = @ \ {ClipsDir},
                               !.exists = IF whole THEN @ \ {ClipsDir} ELSE @]
           /\ fs' # fs
    /\ UNCHANGED <<engines, threads, completions, loads, phase, clips, current_index,
                   player, queue, advance_timers, progress_var,
                   auto_play, speed_var, pause_var, skip_confirm, dialog, search_var,
                   packed, sm_index,
                   sm_dir, disk, pipeline, capture, overlay, runner>>

\* A caller runs _load_clips on the tab.
Reload ==
    /\ Interactive
    /\ \E io \in SaveOutcomes : Set(LoadClips(Cur, io))

LoadInit ==
    /\ completions = 0
    /\ loads = FALSE
    /\ \E c \in {<< >>, Rows} :
           \E s \in {LoadedTab(c, DefaultSpeedTenths)} : InitAs(s)

LoadNext ==
    \/ EnvRemoveOutputs
    \/ EnvRemoveFile
    \/ Reload
    \/ PlayAt
    \/ RunQueued
    \/ T_Check
    \/ T_Read
    \/ T_Progress
    \/ T_Frame

SpecLoad == LoadInit /\ [][LoadNext]_vars

(* ============== SpecRunner: run_pipeline.main, step by step ============= *)

\* Files that can lie in frames_dir, by extension.
FrameFiles == {"jpg", "jpeg", "png", "txt"}

\* patterns of any_frames_exist
FramePatterns == {"jpg", "jpeg", "png"}

\* Return codes of a step's subprocess.
ReturnCodes == {0, 1, 2}

\* Path.glob(pattern) returns a generator; any() tests the generator objects
\* themselves, and an object is true whatever it would yield.
GeneratorIsTrue(yields) == TRUE

\* frames_dir.glob(p): the files of the directory the pattern matches.
Glob(dir, p) == {f \in dir : f = p}

\* An any_frames_exist that looks into what the patterns match.
AnyFramesExist_Matches(dir) == \E p \in FramePatterns : Glob(dir, p) # {}

\* run_pipeline.any_frames_exist: any(frames_dir.glob(p) for p in patterns)
AnyFramesExist(dir) == \E p \in FramePatterns : GeneratorIsTrue(Glob(dir, p))

\* run_cmd: the step is recorded as run; a non-zero return code ends the
\* process with that code, otherwise main goes on at next with the outputs
\* the step has written.
RunCmd(r, step, rc, next, written) ==
    IF rc # 0
    THEN [r EXCEPT !.pc = "exited", !.ran = Append(@, step), !.exit_code = rc]
    ELSE [written EXCEPT !.pc = next, !.ran = Append(@, step)]

\* main, step 1: extract_frames.py unless frames are found and --force is off.
\* A run that succeeds leaves the frames it has extracted (none without clips).
R_Extract ==
    /\ runner.pc = "extract"
    /\ IF runner.force \/ ~AnyFramesExist(runner.frames_dir)
       THEN \E rc \in ReturnCodes, new \in SUBSET {"jpg"} :
                runner' = RunCmd(runner, "extract", rc, "classify",
                                 [runner EXCEPT !.frames_dir = @ \cup new])
       ELSE runner' = [runner EXCEPT !.pc = "classify"]
    /\ UNCHANGED <<engines, threads, completions, loads, phase, clips, current_index,
                   player, queue, advance_timers, progress_var, auto_play,
                   speed_var, pause_var, skip_confirm, dialog, search_var, packed,
                   sm_index, sm_dir, disk, fs, pipeline, capture, overlay>>

\* main, step 2: classify_frames.py unless animal_predictions.csv exists and
\* --force is off.
R_Classify ==
    /\ runner.pc = "classify"
    /\ IF runner.force \/ ~runner.animal_csv
       THEN \E rc \in ReturnCodes :
                runner' = RunCmd(runner, "classify", rc, "summarize",
                                 [runner EXCEPT !.animal_csv = TRUE])
       ELSE runner' = [runner EXCEPT !.pc = "summarize"]
    /\ UNCHANGED <<engines, threads, completions, loads, phase, clips, current_index,
                   player, queue, advance_timers, progress_var, auto_play,
                   speed_var, pause_var, skip_confirm, dialog, search_var, packed,
                   sm_index, sm_dir, disk, fs, pipeline, capture, overlay>>

\* main, step 3: summarize_videos.py unless animals_in_videos.csv exists and
\* --force is off; then "Pipeline complete."
R_Summarize ==
    /\ runner.pc = "summarize"
    /\ IF runner.force \/ ~runner.summary_csv
       THEN \E rc \in ReturnCodes :
                runner' = RunCmd(runner, "summarize", rc, "done",
                                 [runner EXCEPT !.summary_csv = TRUE])
       ELSE runner' = [runner EXCEPT !.pc = "done"]
    /\ UNCHANGED <<engines, threads, completions, loads, phase, clips, current_index,
                   player, queue, advance_timers, progress_var, auto_play,
                   speed_var, pause_var, skip_confirm, dialog, search_var, packed,
                   sm_index, sm_dir, disk, fs, pipeline, capture, overlay>>

\* run_pipeline.py is started with or without --force on directories in any
\* state.
RunnerInit ==
    /\ engines = [e \in EngineIds |-> NewPlayer]
    /\ threads = [i \in ThreadIds |-> NoThread]
    /\ completions = 0
    /\ loads = FALSE
    /\ AppOff
    /\ disk = NoFile
    /\ fs = [exists |-> {}, csv |-> {}, files |-> {}, rows |-> << >>]
    /\ pipeline = NoPipeline
    /\ capture = NoCapture
    /\ overlay = NoOverlay
    /\ \E force, animal_csv, summary_csv \in BOOLEAN, dir \in SUBSET FrameFiles :
           runner = [pc |-> "extract", force |-> force, frames_dir |-> dir,
                     animal_csv |-> animal_csv, summary_csv |-> summary_csv,
                     ran |-> << >>, exit_code |-> 0]

RunnerNext ==
    \/ R_Extract
    \/ R_Classify
    \/ R_Summarize

SpecRunner == RunnerInit /\ [][RunnerNext]_vars

(* ================================ Claims =============================== *)

\* C1: once a later playAt has started its engine, no frame or progress
\* notification of an earlier engine is still to reach the UI: every callback
\* waiting for the UI thread, and every frame a decoder thread has read and is
\* about to report, belongs to the tab's running player.
\* (Violated: stop() gives the thread 50 ms and callbacks already scheduled
\* with after(0, ...) are not withdrawn.)
C1_OnlyCurrentEngineNotifies ==
    (player # NoPlayer /\ engines[player].running) =>
        /\ \A k \in DOMAIN queue : queue[k].src = player
        /\ \A i \in ThreadIds :
               threads[i].pc \in {"progress", "frame"} => threads[i].eng = player

\* An explicit navigation by the user: a click on a clip, next, previous, or a
\* deletion that goes ahead.
UserNavigation ==
    \/ PlayAt
    \/ Next_
    \/ Previous
    \/ DialogYes
    \/ (skip_confirm /\ DeleteKey)

\* C2: an explicit navigation during the countdown cancels the scheduled
\* auto-advance: after the navigation no _advance_after_pause is pending.
\* (Violated: the timer's id is not kept and after_cancel is never called.)
C2_NavigationCancelsAdvance ==
    [][UserNavigation => advance_timers' = 0]_vars

\* C4: the catalog is non-empty and 0 <= current_index < len(clips), or the
\* catalog is empty and current_index is None.
C4_IndexInRange ==
    IF clips = << >> THEN current_index = NoneIndex
    ELSE current_index \in 0..(Len(clips) - 1)

\* C4 witness: a clip has been deleted and the index is at the new last slot.
C4_Witness ==
    /\ phase = "review"
    /\ clips # << >>
    /\ fs.files # Titles
    /\ current_index = Len(clips) - 1

\* A deletion that has been confirmed (or needs no confirmation) is carried out.
ConfirmedDelete ==
    \/ DialogYes
    \/ (skip_confirm /\ current_index # NoneIndex /\ DeleteKey)

\* What C5 says of a confirmed deletion at index i of n records: the record at
\* i is gone, the others keep their order, and the index is min(i, n - 2), or
\* None when the catalog has become empty.
Removed ==
    /\ clips' = SubSeq(clips, 1, current_index)
                \o SubSeq(clips, current_index + 2, Len(clips))
    /\ current_index' = IF Len(clips) = 1 THEN NoneIndex
                        ELSE Min(current_index, Len(clips) - 2)

C6_ResumesAtSavedIndex ==
    [][(/\ Startup
        /\ LoadReturnsState(disk)
        /\ ValidateState(disk, fs)
        /\ disk.index < Len(clips'))
       => current_index' = disk.index]_vars

\* C7: the record written by save, read back by load, validated and restored,
\* gives the index, the directory and the preferences in effect at the save.
\* (Violated: the record holds play_rate and clip_pause_seconds only; a
\* restored tab always has auto-play on.)
C7_RoundTrip ==
    [][(/\ Close
        /\ phase = "review"
        /\ current_index # NoneIndex
        /\ LoadReturnsState(disk')
        /\ ValidateState(disk', fs))
       => LET r == ReviewTabInit(RestoreFromState(Off(Cur, "startup"), disk'),
                                 disk'.play_rate, disk'.pause)
          IN  /\ r.sm_index = current_index
              /\ r.sm_dir = sm_dir
              /\ r.speed_var = speed_var
              /\ r.pause_var = pause_var
              /\ r.auto_play = auto_play]_vars

\* The record on disk has the right version but its directory or its csv is
\* gone.
StaleRecord ==
    /\ LoadReturnsState(disk)
    /\ disk.dir # NoDir
    /\ (disk.dir \notin fs.exists \/ disk.dir \notin fs.csv)

C9_LoadNeverRaises == phase # "crashed"

\* C10: session.json is at all times a complete record (or absent, or what it
\* was before the process wrote it), never a half-written one.
\* (Violated: save_state opens the file itself with mode 'w', which truncates
\* it, and a write that then fails leaves the cut file in place.)
C10_FileNeverHalfWritten == disk.kind # "partial"

\* A navigation has made another clip current (the index has moved, or the
\* catalog has lost a record and a current clip remains) and the media file of
\* the clip now current can be opened.
ClipRequested ==
    /\ UserNavigation \/ ConfirmedDelete
    /\ current_index' # NoneIndex
    /\ current_index' # current_index \/ clips' # clips
    /\ FindClip(clips'[current_index' + 1], fs')

\* C11: whatever happens to the session file, playAt, next, previous and
\* deleteCurrent complete and start the requested clip: after the navigation
\* the tab's player is running.
\* (Violated: the mkdir in _get_config_path is outside save_state's try; when
\* it fails the OSError leaves _play_clip after the old player was stopped and
\* before the new one is created.)
C11_SaveFailureSwallowed ==
    [][ClipRequested => (player' # NoPlayer /\ engines'[player'].running)]_vars

\* A _play_clip that passes its bounds check and whose write of session.json
\* succeeds: called for a click on a clip, or by next, previous, the
\* auto-advance or a deletion that change the clip.
SavedPlay ==
    \/ /\ Interactive
       /\ \E i \in 0..(Len(clips) - 1) : Set(PlayClip(Cur, i, "ok"))
    \/ /\ Interactive
       /\ current_index # NoneIndex /\ current_index + 1 < Len(clips)
       /\ Set(NextClip(Cur, "ok"))
    \/ /\ Interactive
       /\ current_index # NoneIndex /\ current_index - 1 >= 0
       /\ Set(PreviousClip(Cur, "ok"))
    \/ /\ Reviewing
       /\ advance_timers > 0
       /\ current_index # NoneIndex /\ current_index + 1 < Len(clips)
       /\ Set(NextClip([Cur EXCEPT !.advance_timers = @ - 1], "ok"))
    \/ /\ Reviewing
       /\ dialog # 0
       /\ \E dont_ask \in BOOLEAN :
              Set(DeleteConfirmed([Cur EXCEPT !.dialog = 0,
                                              !.skip_confirm = IF dont_ask THEN TRUE ELSE @],
                                  dialog, TRUE, "ok"))
       /\ clips' # clips
       /\ clips' # << >>

C13_FilterThenClearRestores ==
    [][(Search \/ ClearSearch) =>
          /\ clips' = clips
          /\ search_var' = << >> => packed' = clips]_vars

\* A query that is empty or holds spaces only.
BlankQuery(q) == \A i \in DOMAIN q : q[i] = " "

\* The visibility C14 states: the query is blank, or is, case-insensitively,
\* part of the title or of the rendered animal list.
StatedVisible(q, t) ==
    \/ BlankQuery(q)
    \/ Contains(StrLower(TitleOf(t)), StrLower(q))
    \/ Contains(StrLower(FormatAnimalNames(AnimalsOf(t))), StrLower(q))

\* C14: after filter(q) a record is visible iff q is blank or q is a
\* case-insensitive substring of its title or of the rendering of its animals.
\* (Violated: the query is not stripped, so a query of spaces hides every clip,
\* and the test is made on the raw animal string, red_fox&deer, not on its
\* rendering, Red Fox, Deer.)
C14_FilterShowsMatches ==
    [][Search =>
          \A k \in DOMAIN clips :
              (\E i \in DOMAIN packed' : packed'[i] = clips[k])
                  <=> StatedVisible(search_var', clips[k])]_vars

\* A step of _on_search_and_jump: Return pressed on the text the box holds
\* after the step.
JumpStep ==
    /\ Interactive
    /\ \E q \in Queries, io \in SaveOutcomes :
           /\ q = search_var'
           /\ Set(OnSearchAndJump([Cur EXCEPT !.search_var = q], io))

\* What C15 says of a search-and-jump: the lowest index whose title holds the
\* query (case-insensitively) is the current index; with no such title, the
\* index, the player and the engines are left as they are.
JumpedToLowestMatch ==
    LET m == {i \in 0..(Len(clips) - 1) :
                 Contains(StrLower(TitleOf(clips[i + 1])), StrLower(search_var'))}
    IN  /\ clips' = clips
        /\ IF m = {}
           THEN UNCHANGED <<current_index, player, engines, threads>>
           ELSE /\ current_index' \in m
                /\ \A j \in m : current_index' <= j

\* C15: search-and-jump navigates to the lowest index, in catalog order, whose
\* title holds the query, and navigates nowhere when no title holds it: every
\* step is one that satisfies this or is not a search-and-jump.
C15_JumpToLowestMatch ==
    [][JumpedToLowestMatch \/ ~JumpStep]_vars

\* C15 witness: the text d was searched in a catalog with a clip before the
\* first clip whose title holds it, and that clip, D2, is the current one.
C15_Witness ==
    /\ search_var = <<"d">>
    /\ current_index > 0
    /\ clips[current_index + 1] = 2
    /\ player # NoPlayer
    /\ engines[player].running

\* C16: the progress values applied to the progress bar while a clip plays
\* never go down and stay within 0..100 percent: a step that runs a queued
\* progress update does not lower progress_var.
\* (Violated, through C1: an update the replaced engine had queued is run after
\* _play_clip has reset the bar, and shows the old clip's progress; the first
\* value of the new clip is then lower.)
C16_ProgressNeverDecreases ==
    [][Len(queue') < Len(queue) =>
          /\ progress_var' >= progress_var
          /\ progress_var' \in 0..100]_vars

\* set_speed(m) is called on the engine under test.
SetSpeedCalled(m) ==
    /\ engines' = [engines EXCEPT ![1] = SetSpeed(engines[1], m)]
    /\ UNCHANGED <<threads, completions, loads>>

\* C17: set_speed(m) with m below 0.1 (zero or negative included) leaves the
\* multiplier at exactly 0.1; the multiplier of every engine is at least 0.1
\* before and after every step, and the frame step derived from it at least 1.
C17_SpeedFloor ==
    [][/\ \A e \in EngineIds :
              /\ engines[e].speed >= MinSpeedTenths
              /\ engines'[e].speed >= MinSpeedTenths
              /\ FrameStep(engines'[e]) >= 1
       /\ \A m \in SpeedInputs :
              (m < MinSpeedTenths /\ SetSpeedCalled(m)) =>
                  engines'[1].speed = MinSpeedTenths]_vars

\* The engine plays at the floor speed, which only set_speed(m) with m < 0.1
\* produces, and has consumed frames.
C17_Witness ==
    /\ engines[1].speed = MinSpeedTenths
    /\ engines[1].running
    /\ engines[1].pos > 0

\* step is the speed m (in tenths) rounded to the nearest integer, with a
\* floor of 1; 1.5 rounds to 2.
IsRoundedStep(step, m) ==
    /\ step >= 1
    /\ step = 1 \/ 10 * step - m <= 5
    /\ m - 10 * step <= 5
    /\ m = 15 => step = 2

\* Thread i reads a frame and goes on to deliver it.
TickDelivers(i) == threads[i].pc = "read" /\ threads'[i].pc = "progress"

NextOutcome ==
    /\ clips' = clips
    /\ IF current_index = Len(clips) - 1
       THEN /\ current_index' = current_index
            /\ player' = player
            /\ player # NoPlayer =>
                   /\ ~engines'[player].running
                   /\ engines'[player].cap = "none"
       ELSE /\ current_index' \in {current_index, current_index + 1}
            /\ current_index' < Len(clips)

\* What C19 says of a previous step: the catalog is kept; at index 0 nothing
\* of the index, the player, the engines or their threads changes; elsewhere
\* the index stays or falls by one.
PreviousOutcome ==
    /\ clips' = clips
    /\ IF current_index = 0
       THEN /\ current_index' = 0
            /\ player' = player
            /\ engines' = engines
            /\ threads' = threads
       ELSE /\ current_index' \in {current_index, current_index - 1}
            /\ current_index' >= 0

\* C19: next and previous never wrap and never move the index outside the
\* catalog: previous at index 0 changes neither the index nor the playing
\* engine; next at the last index keeps the index and stops playback.
C19_NoWrap ==
    [][/\ current_index = NoneIndex \/ NextOutcome \/ ~Next_
       /\ current_index = NoneIndex \/ PreviousOutcome \/ ~Previous]_vars

\* The review screen at the last of several clips with its player stopped and
\* released, as next leaves it at the end of the list.
C19_Witness ==
    /\ phase = "review"
    /\ dialog = 0
    /\ Len(clips) > 1
    /\ current_index = Len(clips) - 1
    /\ player # NoPlayer
    /\ ~engines[player].running
    /\ engines[player].cap = "none"
    /\ engines[player].pos = 0

\* C20: stop() in any engine state (new, loaded, failed load, running, paused,
\* completed, stopped, with or without a live thread) leaves the engine not
\* running with no capture held, and a second stop() changes nothing more.
C20_StopIdempotent ==
    \A e \in EngineIds :
        \E once \in {StopPlayer(engines[e])} :
            /\ ~once.running
            /\ once.cap = "none"
            /\ StopPlayer(once) = once

\* The engine under test was stopped while paused in mid-clip and its thread
\* has not ended yet.
C20_Witness ==
    /\ engines[1] = StopPlayer(engines[1])
    /\ engines[1].paused
    /\ engines[1].pos > 0
    /\ \E i \in ThreadIds : ThreadAlive(threads[i])

\* The engine under test is Loaded: a capture is open, the engine is not
\* running, and the loaded clip has not completed.
Loaded ==
    /\ engines[1].cap = "open"
    /\ ~engines[1].running
    /\ completions = 0

\* C21: start() outside the Loaded state (before a load, after stop, after
\* natural completion, while running) raises and creates no decoder thread.
\* (Violated: start tests only the capture and the running flag; after natural
\* completion the capture is still open and running is false, so start runs a
\* second thread on the exhausted capture; while running it returns silently.)
C21_StartOnlyWhenLoaded ==
    [][E_Start => \/ Loaded
                  \/ StartRaises(engines[1]) /\ threads' = threads]_vars

\* The titles of the records of a catalog.
TitlesIn(cs) == {cs[i] : i \in DOMAIN cs}

\* The user has confirmed the deletion of clip c: the dialog about c is
\* answered, or confirmations were switched off by an earlier Yes and c is
\* the current clip.
DeletionConfirmed(c) ==
    \/ dialog = c
    \/ /\ skip_confirm
       /\ dialog = 0
       /\ current_index # NoneIndex
       /\ clips[current_index + 1] = c

\* C22: on the review screen a step that trashes a file or removes a record
\* trashes the file and removes the record of one clip whose deletion the user
\* has confirmed; skip_delete_confirmation is false when the review screen is
\* created and becomes true only when a dialog is closed.
\* (Violated: _delete_clip takes the clip before the modal dialog and the index
\* after it; an auto-advance that fires while the dialog is open moves the
\* index, and Yes then trashes the confirmed clip's file but removes the record
\* of the clip that has become current.)
C22_DeletionConfirmed ==
    [][/\ (phase = "review" /\ phase' = "review"
           /\ (clips' # clips \/ fs'.files # fs.files)) =>
              \E c \in Titles :
                  /\ DeletionConfirmed(c)
                  /\ fs.files \ fs'.files = {c}
                  /\ TitlesIn(clips) \ TitlesIn(clips') = {c}
       /\ (phase # "review" /\ phase' = "review") => ~skip_confirm'
       /\ (phase = "review" /\ ~skip_confirm /\ skip_confirm') =>
              (dialog # 0 /\ dialog' = 0)]_vars

\* Thread i reads the end of the stream of an engine that was not stopped: its
\* clip completes.
NaturalCompletion(i) ==
    /\ threads[i].pc = "read"
    /\ threads'[i].pc = "dead"
    /\ engines[threads[i].eng].cap = "open"
    /\ engines'[threads[i].eng].cap = "open"
    /\ ~engines'[threads[i].eng].running

\* C23: when a clip completes with auto-play on, one more _advance_after_pause
\* is scheduled; with auto-play off none is pending after the completion and
\* the index stays on the completed clip.
\* (Violated, through C2: an advance scheduled by an earlier completion is not
\* cancelled when the user navigates, so it is still pending when the next clip
\* completes with auto-play switched off, and moves the index by itself.)
C23_CompletionSchedulesAdvance ==
    [][\A i \in ThreadIds :
          NaturalCompletion(i) =>
              /\ current_index' = current_index
              /\ IF auto_play THEN advance_timers' = advance_timers + 1
                 ELSE advance_timers' = 0]_vars

\* A step taken by a decoder thread.
DecoderStep == T_Check \/ T_Read \/ T_Progress \/ T_Frame

\* C24: a step of a decoder thread changes the engine, the thread and the queue
\* of updates handed to the UI thread, and nothing of the tab's own state
\* (index, scheduled advances, progress bar, preferences, catalog, session).
\* (Violated: the completion callback is _on_video_complete itself, which the
\* decoder thread runs: it reads the preferences, places the overlay and
\* schedules _advance_after_pause without going through after(0, ...).)
C24_CallbacksMarshaled ==
    [][DecoderStep =>
          UNCHANGED <<current_index, advance_timers, progress_var, auto_play,
                      speed_var, pause_var, clips, packed, search_var,
                      skip_confirm, dialog, sm_index, sm_dir, disk>>]_vars

\* The extensions, in probing order, whose candidate for the title exists.
ExistingExts(title) ==
    SelectSeq(Exts, LAMBDA e : [title |-> title, ext |-> e] \in pipeline.listing)

\* C25: after the load the records are, in the order of the rows, those of the
\* rows with an existing candidate; the path of each is the first existing
\* candidate of its title in the order .mp4, .MP4, .mov, .MOV; no record has a
\* null path.
C25_CatalogOfExistingFiles ==
    pipeline.stage = "loaded" =>
        LET rows == pipeline.rows
            kept == SelectSeq(rows, LAMBDA r : ExistingExts(r.video_title) # << >>)
            recs == pipeline.clips
        IN  /\ Len(recs) = Len(kept)
            /\ \A i \in DOMAIN recs :
                   /\ recs[i].title = kept[i].video_title
                   /\ recs[i].path # NoPath
                   /\ recs[i].path = [title |-> recs[i].title,
                                      ext |-> Head(ExistingExts(recs[i].title))]

\* Video a has no .mp4 but both .MP4 and .mov and is loaded from .MP4; video b
\* has a row and no file, and no record.
C25_Witness ==
    /\ pipeline.stage = "loaded"
    /\ Len(pipeline.rows) = 2
    /\ Len(pipeline.clips) = 1
    /\ pipeline.clips[1].path = [title |-> "a", ext |-> ".MP4"]
    /\ [title |-> "a", ext |-> ".mov"] \in pipeline.listing

\* The distinct species labels of a record: the parts of its unique_animals.
DistinctLabels(unique_animals) ==
    IF unique_animals = << >> THEN {}
    ELSE LET parts == StrSplit(unique_animals, "&")
         IN  {parts[i] : i \in DOMAIN parts}

\* C27: every record's multiple flag is true exactly when its unique_animals
\* holds more than one distinct normalized label.
\* (Violated: aggregate counts the labels before it normalizes them, so "red
\* fox" and "red_fox" make a row red_fox&red_fox with multiple_animals true.)
C27_MultipleIffSeveralLabels ==
    pipeline.stage = "loaded" =>
        \A i \in DOMAIN pipeline.clips :
            pipeline.clips[i].multiple <=>
                Cardinality(DistinctLabels(pipeline.clips[i].unique_animals)) > 1

\* C26: while the tab's engine is running its multiplier is max(0.1, speed_var):
\* a clip starts at the preferred speed, and the keys and the slider change the
\* running engine together with the preference.
C26_SpeedFollowsPreference ==
    (phase = "review" /\ player # NoPlayer /\ engines[player].running) =>
        engines[player].speed = Max(MinSpeedTenths, speed_var)

\* A clip that has started to play is playing at 2.5x, set with the slider.
C26_Witness ==
    /\ phase = "review"
    /\ player # NoPlayer
    /\ engines[player].running
    /\ engines[player].pos > 0
    /\ speed_var = 25
    /\ engines[player].speed = 25

\* a holds some of the records of b, in the order they have in b.
KeepsOrder(a, b) ==
    /\ TitlesIn(a) \subseteq TitlesIn(b)
    /\ \A i, j \in DOMAIN a :
           i < j => (CHOOSE k \in DOMAIN b : b[k] = a[i])
                        < (CHOOSE k \in DOMAIN b : b[k] = a[j])

OpenFailed ==
    /\ player' # NoPlayer
    /\ engines'[player'].cap = "unopened"
    /\ \/ player' # player
       \/ engines[player'].cap # "unopened"
       \/ current_index' # current_index

\* After the step every engine but the tab's new player (the replaced engine
\* among them) is stopped: not running, capture released.
PreviousEngineStopped ==
    \A e \in EngineIds \ {player'} :
        ~engines'[e].running /\ engines'[e].cap = "none"

NoDecoderThread == \A i \in ThreadIds : ~ThreadAlive(threads'[i])

NoAdvancePending == advance_timers' = 0

IndexValid == current_index' \in 0..(Len(clips') - 1)

\* C29: when the capture of the clip cannot be opened in _play_clip, the error
\* is caught (the tab stays shown, the new player is not running), the previous
\* engine is stopped, no decoder thread is alive, no auto-advance timer is
\* pending, and current_index is an index of the catalog.
C29_OpenFailureLeavesReady ==
    [][OpenFailed =>
          /\ phase' = "review"
          /\ ~engines'[player'].running
          /\ PreviousEngineStopped
          /\ NoDecoderThread
          /\ NoAdvancePending
          /\ IndexValid]_vars

\* C30: VideoCapture.release returns without raising whatever the state of the
\* capture (opened, open failed, constructed on no path, released before) and
\* whatever becomes of its close request; a release of a released capture
\* sends nothing and changes nothing; every read and grab after a release
\* reports failure, without raising and without a request.
C30_ReleaseIdempotentTotal ==
    [][/\ capture'.op = "release"
          => /\ capture'.result = "returned"
             /\ capture'.client = NewClient
             /\ capture.released
                    => /\ capture'.requests = 0
                       /\ capture'.client = capture.client
                       /\ capture'.sessions = capture.sessions
       /\ (capture'.op \in {"read", "grab"} /\ capture.released)
          => capture'.result = "fail" /\ capture'.requests = 0]_vars

\* A capture that was opened and has delivered a frame has been released, its
\* close request failing (the backend still holds the session), and then read.
C30_Witness ==
    /\ capture.op = "read"
    /\ capture.released
    /\ capture.result = "fail"
    /\ capture.calls = MaxCalls
    /\ \E i \in SessionIds : capture.sessions[i].live /\ capture.sessions[i].pos > 0

\* C31: an engine whose thread has invoked the completion callback holds no open
\* capture any more (the engine harness counts the callback).
C31_CompletedEngineReleased ==
    [][completions' > completions => engines'[1].cap # "open"]_vars

\* At most one engine of the application holds an open capture.
OneOpenSource == Cardinality({e \in EngineIds : engines[e].cap = "open"}) <= 1

\* C32: on the review screen, whenever a media file is trashed or a record
\* leaves the catalog, the records that left are exactly those of the trashed
\* files, whatever happened while the confirmation dialog was open.
C32_RemovedIsTrashed ==
    [][(/\ phase = "review"
        /\ phase' = "review"
        /\ (clips' # clips \/ fs'.files # fs.files))
          => TitlesIn(clips) \ TitlesIn(clips') = fs.files \ fs'.files]_vars

\* C33: the completion callback is invoked only by a thread that reads the end
\* of the stream of an engine that is running on its open capture; an engine
\* that stop() has stopped never fires it.
C33_NoCompletionAfterStop ==
    [][completions' > completions
          => /\ engines[1].running
             /\ engines[1].cap = "open"
             /\ engines[1].total_frames - engines[1].pos < FrameStep(engines[1])]_vars

\* C34: an _advance_after_pause timer fires and runs _next_clip only while
\* auto-play is on; turning auto-play off during the countdown keeps the
\* scheduled advance from running.
C34_NoAdvanceWhileAutoPlayOff ==
    [][auto_play \/ ~AdvanceAfterPause]_vars

\* C35: when the settings panel or the advanced menu is closed, a player that
\* is paused at that moment (the one the overlay found, paused by it or before
\* it) is left paused iff it was paused before the overlay opened, and a player
\* that is not paused at that moment (one started while the overlay was open) is
\* left not paused.
C35_OverlayKeepsPause ==
    [][(overlay.open # "none" /\ overlay'.open = "none" /\ player # NoPlayer)
          => engines'[player'].paused =
                 (engines[player].paused /\ overlay.paused_before)]_vars

\* The clip of the tab's player has been read to its end and the engine has
\* stopped running by itself.
PlayedToEnd ==
    /\ player # NoPlayer
    /\ ~engines[player].running
    /\ engines[player].cap = "open"
    /\ engines[player].pos = engines[player].total_frames

\* The last clip is current, nothing plays and nothing is scheduled.
EndOfList ==
    /\ current_index = Len(clips) - 1
    /\ player # NoPlayer
    /\ ~engines[player].running
    /\ engines[player].cap = "none"
    /\ advance_timers = 0
    /\ \A i \in ThreadIds : ~ThreadAlive(threads[i])

\* C36: with auto-play on and no input after playAt(i), the index only moves
\* from a clip that has been played to its end to the clip after it, a player
\* is only replaced or stopped after its clip has been played to its end, and
\* the tab ends up, for good, at the last clip with playback stopped and no
\* advance scheduled.
C36_AutoPlayRunsList ==
    /\ [][/\ current_index' # current_index
             => current_index' = current_index + 1 /\ PlayedToEnd
          /\ AdvanceAfterPause => PlayedToEnd]_vars
    /\ <>[]EndOfList

C38_FailedLoadKeepsCatalog ==
    (phase = "review" /\ (ClipsDir \notin fs.exists \/ ClipsDir \notin fs.csv))
        => \A io \in SaveOutcomes :
               LET s == LoadClips(Cur, io) IN
               /\ s.clips = clips
               /\ s.packed = packed
               /\ s.current_index = current_index
               /\ s.player = player
               /\ s.engines = engines
               /\ s.threads = threads
               /\ ~s.raised

\* A tab with two clips, the second one playing, whose csv has been deleted.
C38_Witness ==
    /\ phase = "review"
    /\ ClipsDir \in fs.exists
    /\ ClipsDir \notin fs.csv
    /\ clips = Rows
    /\ current_index = 1
    /\ player # NoPlayer
    /\ engines[player].running

\* C39: the key - never raises speed_var and the keys + and = never lower it,
\* at every speed the tab can have (the steps of the keys and the positions of
\* the slider, 0.5 to 8.0).
C39_SpeedKeysMonotone ==
    [][/\ speed_var' <= speed_var \/ ~DecreaseSpeedKey
       /\ speed_var' >= speed_var \/ ~IncreaseSpeedKey]_vars

\* The step of main that runner.pc stands at runs its subprocess in this step.
Runs(step) == runner.pc = step /\ runner'.ran = Append(runner.ran, step)

\* The step of main that runner.pc stands at is passed over in this step.
Skips(step) == runner.pc = step /\ runner'.ran = runner.ran

\* A frame image (jpg, jpeg or png) lies in frames_dir.
FrameImageExists == runner.frames_dir \cap FramePatterns # {}

\* C40: extraction runs iff --force or no frame image lies in frames_dir,
\* classification iff --force or animal_predictions.csv is missing,
\* summarization iff --force or animals_in_videos.csv is missing; the steps are
\* taken in the order extract, classify, summarize; a step that returns a
\* non-zero code ends the run with that code.
C40_RunnerSkipsOnlyExisting ==
    [][/\ runner.pc = "extract"
             => IF runner.force \/ ~FrameImageExists
                THEN Runs("extract") ELSE Skips("extract")
       /\ runner.pc = "classify"
             => IF runner.force \/ ~runner.animal_csv
                THEN Runs("classify") ELSE Skips("classify")
       /\ runner.pc = "summarize"
             => IF runner.force \/ ~runner.summary_csv
                THEN Runs("summarize") ELSE Skips("summarize")
       /\ runner'.pc \in
             CASE runner.pc = "extract" -> {"classify", "exited"}
               [] runner.pc = "classify" -> {"summarize", "exited"}
               [] runner.pc = "summarize" -> {"done", "exited"}
               [] OTHER -> {}
       /\ runner'.pc = "exited" <=> runner'.exit_code # 0]_vars

====
